---- MODULE Spec2Model ----
(***************************************************************************)
(* A model of janet-msgpack (src/msgpack.c): the hand-written MessagePack  *)
(* encoder, the mpack-based decoder and the two entry points               *)
(* msgpack/encode and msgpack/decode.                                      *)
(*                                                                         *)
(* 64-bit C integers are 8-tuples of bytes, most significant byte first    *)
(* (two's complement), because the values the encoder distinguishes        *)
(* (2^32, 2^63, ...) do not fit the model checker's integers.              *)
(***************************************************************************)
EXTENDS Integers, Sequences, FiniteSets, TLC

VARIABLES
    op,      \* the function the last step ran ("none" before the first)
    args,    \* the arguments that call was given
    buffer,  \* contents of the byte buffer the caller holds
    origin,  \* how the caller's buffer came to hold what it holds
    ret      \* how the call ended: status, returned value, bytes emitted

vars == <<op, args, buffer, origin, ret>>

(***************************************************************************)
(* Bounds of the model.                                                    *)
(***************************************************************************)
\* Integer inputs are taken within Near of every width boundary.
Near == 2

(***************************************************************************)
(* 64-bit words.                                                           *)
(***************************************************************************)
Byte == 0..255

Zero64 == <<0, 0, 0, 0, 0, 0, 0, 0>>

\* The least element of a non-empty set of integers.
MinOf(S) == CHOOSE m \in S : \A k \in S : m <= k

\* (int64_t) i for an i in the 32-bit signed range: sign extension.
FromInt32(i) ==
    IF i >= 0
    THEN <<0, 0, 0, 0, i \div 16777216, (i \div 65536) % 256, (i \div 256) % 256, i % 256>>
    ELSE LET j == (i + 2147483647) + 1
         IN  <<255, 255, 255, 255, 128 + (j \div 16777216), (j \div 65536) % 256,
               (j \div 256) % 256, j % 256>>

\* Whether the signed value of w lies in the 32-bit signed range.
InInt32(w) ==
    \/ (\A i \in 1..4 : w[i] = 0) /\ w[5] < 128
    \/ (\A i \in 1..4 : w[i] = 255) /\ w[5] >= 128

\* The signed value of a word in the 32-bit signed range.
ToInt32(w) ==
    IF w[5] < 128
    THEN w[5] * 16777216 + w[6] * 65536 + w[7] * 256 + w[8]
    ELSE ((w[5] - 128) * 16777216 + w[6] * 65536 + w[7] * 256 + w[8] - 2147483647) - 1

\* a <= b, both read as uint64_t.
ULe(a, b) ==
    LET d == {i \in 1..8 : a[i] # b[i]}
    IN  IF d = {} THEN TRUE ELSE a[MinOf(d)] < b[MinOf(d)]

\* a <= b, both read as int64_t.
SLe(a, b) ==
    ULe([a EXCEPT ![1] = (a[1] + 128) % 256], [b EXCEPT ![1] = (b[1] + 128) % 256])

\* target >> bits on uint64_t, for a whole number of bytes.
Shr(w, bits) ==
    LET k == bits \div 8
    IN  [i \in 1..8 |-> IF i - k >= 1 THEN w[i - k] ELSE 0]

\* (uint8_t) w, which is also w & 0xFF.
U8(w) == w[8]

\* (uintN_t) ((intN_t) w) widened to uint64_t: the low n bytes, zero-extended.
TruncU(w, n) == [i \in 1..8 |-> IF i > 8 - n THEN w[i] ELSE 0]

\* Whether the first n bytes of w all are x.
LeadingAll(w, n, x) == \A i \in 1..n : w[i] = x

\* The payload p (1, 2, 4 or 8 bytes) widened to 64 bits with fill byte x.
Widen(p, x) == [i \in 1..8 |-> IF i > 8 - Len(p) THEN p[i - (8 - Len(p))] ELSE x]

\* a + b modulo 2^64.
RECURSIVE AddFrom(_, _, _, _)
AddFrom(a, b, i, carry) ==
    IF i = 0 THEN <<>>
    ELSE LET s == a[i] + b[i] + carry
         IN  Append(AddFrom(a, b, i - 1, s \div 256), s % 256)

Add64(a, b) == AddFrom(a, b, 8, 0)

\* a | b on non-negative integers.
RECURSIVE BitOr(_, _)
BitOr(a, b) ==
    IF a = 0 THEN b
    ELSE IF b = 0 THEN a
    ELSE (IF a % 2 = 1 \/ b % 2 = 1 THEN 1 ELSE 0) + 2 * BitOr(a \div 2, b \div 2)

\* C constants that are compared against 64-bit values.
W_0xFF == FromInt32(255)
W_0xFFFF == FromInt32(65535)
W_0xFFFFFFFF == <<0, 0, 0, 0, 255, 255, 255, 255>>
W_INT8_MIN == FromInt32(-128)
W_INT16_MIN == FromInt32(-32768)
W_INT32_MIN == <<255, 255, 255, 255, 128, 0, 0, 0>>
W_INT32_MAX == <<0, 0, 0, 0, 127, 255, 255, 255>>

(***************************************************************************)
(* The byte buffer (JanetBuffer): a sequence of bytes.                     *)
(***************************************************************************)
\* A push that drops what the buffer held.
janet_buffer_push_u8_Overwrite(buf, x) == <<x % 256>>

janet_buffer_push_u8(buf, x) == Append(buf, x % 256)

janet_buffer_push_bytes(buf, bytes, len) == buf \o SubSeq(bytes, 1, len)

(***************************************************************************)
(* The integer encoder.                                                    *)
(***************************************************************************)
\* A plausible slip: the payload written least significant byte first.
encode_int_without_tag_LittleEndian(buf, target, needed_bytes) ==
    buf \o [i \in 1..needed_bytes |-> target[9 - i]]

encode_int_without_tag(buf, target, needed_bytes) ==
    CASE needed_bytes = 1 ->
            janet_buffer_push_u8(buf, U8(target))
      [] needed_bytes = 2 ->
            janet_buffer_push_u8(
              janet_buffer_push_u8(buf, U8(Shr(target, 8))), U8(target))
      [] needed_bytes = 4 ->
            janet_buffer_push_u8(
              janet_buffer_push_u8(
                janet_buffer_push_u8(
                  janet_buffer_push_u8(buf, U8(Shr(target, 24))),
                  U8(Shr(target, 16))),
                U8(Shr(target, 8))),
              U8(target))
      [] needed_bytes = 8 ->
            janet_buffer_push_u8(
              janet_buffer_push_u8(
                janet_buffer_push_u8(
                  janet_buffer_push_u8(
                    janet_buffer_push_u8(
                      janet_buffer_push_u8(
                        janet_buffer_push_u8(
                          janet_buffer_push_u8(buf, U8(Shr(target, 56))),
                          U8(Shr(target, 48))),
                        U8(Shr(target, 40))),
                      U8(Shr(target, 32))),
                    U8(Shr(target, 24))),
                  U8(Shr(target, 16))),
                U8(Shr(target, 8))),
              U8(target))

\* A plausible slip: the tag offset taken to be the byte count.
encode_int_tagged_TagByWidth(buf, target, needed_bytes, tag_start) ==
    encode_int_without_tag(
        janet_buffer_push_u8(buf, tag_start + needed_bytes), target, needed_bytes)

encode_int_tagged(buf, target, needed_bytes, tag_start) ==
    LET tag == CASE needed_bytes = 1 -> tag_start
                 [] needed_bytes = 2 -> tag_start + 1
                 [] needed_bytes = 4 -> tag_start + 2
                 [] needed_bytes = 8 -> tag_start + 3
    IN  encode_int_without_tag(janet_buffer_push_u8(buf, tag), target, needed_bytes)

\* A plausible slip: strict comparisons, so 255 and 65535 take the wider form.
needed_bytes_unsigned_Strict(signed_value) ==
    IF SLe(signed_value, W_0xFF) /\ signed_value # W_0xFF THEN 1
    ELSE IF SLe(signed_value, W_0xFFFF) /\ signed_value # W_0xFFFF THEN 2
    ELSE IF SLe(signed_value, W_0xFFFFFFFF) /\ signed_value # W_0xFFFFFFFF THEN 4
    ELSE 8

\* The width chosen in the non-negative branch: the tests are made on the
\* signed value, also when the value is "actually unsigned".
needed_bytes_unsigned(signed_value) ==
    IF SLe(signed_value, W_0xFF) THEN 1
    ELSE IF SLe(signed_value, W_0xFFFF) THEN 2
    ELSE IF SLe(signed_value, W_0xFFFFFFFF) THEN 4
    ELSE 8

\* A plausible slip: strict comparisons, so -128 and -32768 take the wider form.
needed_bytes_signed_Strict(signed_value) ==
    IF SLe(W_INT8_MIN, signed_value) /\ signed_value # W_INT8_MIN THEN 1
    ELSE IF SLe(W_INT16_MIN, signed_value) /\ signed_value # W_INT16_MIN THEN 2
    ELSE IF SLe(W_INT32_MIN, signed_value) /\ signed_value # W_INT32_MIN THEN 4
    ELSE 8

\* The width chosen in the negative branch.
needed_bytes_signed(signed_value) ==
    IF SLe(W_INT8_MIN, signed_value) THEN 1
    ELSE IF SLe(W_INT16_MIN, signed_value) THEN 2
    ELSE IF SLe(W_INT32_MIN, signed_value) THEN 4
    ELSE 8

\* A plausible slip: the one-byte negative form used down to INT8_MIN.
negative_fixint_limit_Int8 == W_INT8_MIN

\* The least value written in the one-byte negative form.
negative_fixint_limit == FromInt32(-32)

encode_msgpack_int(buf, signed_value, actually_unsigned) ==
    IF SLe(Zero64, signed_value) \/ actually_unsigned
    THEN LET value == signed_value
         IN  IF ULe(value, FromInt32(127))
             THEN janet_buffer_push_u8(buf, U8(value))
             ELSE encode_int_tagged(buf, value, needed_bytes_unsigned(signed_value), 204)
    ELSE IF SLe(negative_fixint_limit, signed_value)
         THEN janet_buffer_push_u8(buf, BitOr(224, (ToInt32(signed_value) + 32) % 256))
         ELSE LET needed_bytes == needed_bytes_signed(signed_value)
                  value == TruncU(signed_value, needed_bytes)
              IN  encode_int_tagged(buf, value, needed_bytes, 208)

(***************************************************************************)
(* Host values (Janet).  Every value is a record of the same shape:        *)
(*   t     the type: "nil", "boolean", "number", "string", "buffer",       *)
(*         "symbol", "keyword", "tuple", "array", "table", "struct",       *)
(*         "function", and the abstract types "s64", "u64" (the 64-bit     *)
(*         integers of JANET_INT_TYPES) and "abstract" (any other)         *)
(*   b     the truth value of a boolean                                    *)
(*   n     a number's IEEE-754 double bit pattern, or the 64-bit value of  *)
(*         an s64 / u64, as a word                                         *)
(*   s     the bytes of a string, buffer, symbol or keyword                *)
(*   items the elements of a tuple or array; for a table or struct the     *)
(*         slots of its backing storage, each <<key, value>>, an unused    *)
(*         slot having key nil                                             *)
(***************************************************************************)
Mk(t) == [t |-> t, b |-> FALSE, n |-> Zero64, s |-> <<>>, items |-> <<>>]

janet_wrap_nil == Mk("nil")
janet_wrap_boolean(x) == [Mk("boolean") EXCEPT !.b = x]
janet_wrap_number(bits) == [Mk("number") EXCEPT !.n = bits]
janet_wrap_s64(w) == [Mk("s64") EXCEPT !.n = w]
janet_wrap_u64(w) == [Mk("u64") EXCEPT !.n = w]
janet_wrap_string(bytes) == [Mk("string") EXCEPT !.s = bytes]
janet_wrap_buffer(bytes) == [Mk("buffer") EXCEPT !.s = bytes]
janet_symbolv(bytes) == [Mk("symbol") EXCEPT !.s = bytes]
janet_keywordv(bytes) == [Mk("keyword") EXCEPT !.s = bytes]
janet_wrap_tuple(elems) == [Mk("tuple") EXCEPT !.items = elems]
janet_wrap_array(elems) == [Mk("array") EXCEPT !.items = elems]
janet_wrap_table(slots) == [Mk("table") EXCEPT !.items = slots]
janet_wrap_struct(slots) == [Mk("struct") EXCEPT !.items = slots]

janet_type(v) == IF v.t \in {"s64", "u64", "abstract"} THEN "abstract" ELSE v.t

janet_checktype(v, t) == janet_type(v) = t

\* JANET_INT_S64, JANET_INT_U64 or JANET_INT_NONE for an abstract value.
janet_is_int(v) == IF v.t \in {"s64", "u64"} THEN v.t ELSE "none"

\* The build option that provides the 64-bit integer types (on by default).
JANET_INT_TYPES == TRUE

(***************************************************************************)
(* Janet numbers are doubles.  The conversions between a double's bit      *)
(* pattern and a 32-bit integer.                                           *)
(***************************************************************************)
Bits64(w) == [k \in 1..64 |-> (w[((k - 1) \div 8) + 1] \div (2 ^ (7 - ((k - 1) % 8)))) % 2]

Pack64(b) ==
    [i \in 1..8 |->
        b[8 * i - 7] * 128 + b[8 * i - 6] * 64 + b[8 * i - 5] * 32 + b[8 * i - 4] * 16
          + b[8 * i - 3] * 8 + b[8 * i - 2] * 4 + b[8 * i - 1] * 2 + b[8 * i]]

\* The number whose binary digits are b[from..to], most significant first.
RECURSIVE BitsValue(_, _, _)
BitsValue(b, from, to) ==
    IF from > to THEN 0 ELSE 2 * BitsValue(b, from, to - 1) + b[to]

\* floor(log2(m)) for m >= 1.
RECURSIVE Log2(_)
Log2(m) == IF m <= 1 THEN 0 ELSE 1 + Log2(m \div 2)

\* The biased exponent field of a double.
DoubleExp(w) == BitsValue(Bits64(w), 2, 12)

\* janet_checkint: the double is integral and lies in the int32 range.
janet_checkint(v) ==
    /\ janet_checktype(v, "number")
    /\ LET b == Bits64(v.n)
           E == DoubleExp(v.n)
           e == E - 1023
       IN  \/ E = 0 /\ \A k \in 13..64 : b[k] = 0
           \/ /\ E # 0
              /\ e \in 0..31
              /\ \A k \in (13 + e)..64 : b[k] = 0
              /\ e = 31 => (b[1] = 1 /\ \A k \in 13..64 : b[k] = 0)

\* janet_unwrap_integer: the int32 value of a number that passes janet_checkint.
janet_unwrap_integer(v) ==
    LET b == Bits64(v.n)
        E == DoubleExp(v.n)
        e == E - 1023
    IN  IF E = 0 THEN 0
        ELSE IF e = 31 THEN (0 - 2147483647) - 1
        ELSE LET mag == 2 ^ e + BitsValue(b, 13, 12 + e)
             IN  IF b[1] = 1 THEN 0 - mag ELSE mag

\* (double) i for an int32 i, as a bit pattern.
DoubleOfInt32(i) ==
    IF i = 0 THEN Zero64
    ELSE IF i = (0 - 2147483647) - 1 THEN <<193, 224, 0, 0, 0, 0, 0, 0>>
    ELSE LET mag == IF i < 0 THEN 0 - i ELSE i
             e == Log2(mag)
             E == 1023 + e
             rest == mag - 2 ^ e
         IN  Pack64([k \in 1..64 |->
                 IF k = 1 THEN (IF i < 0 THEN 1 ELSE 0)
                 ELSE IF k <= 12 THEN (E \div (2 ^ (12 - k))) % 2
                 ELSE IF k - 12 <= e THEN (rest \div (2 ^ (e - (k - 12)))) % 2
                 ELSE 0])

janet_wrap_integer(i) == janet_wrap_number(DoubleOfInt32(i))

(***************************************************************************)
(* Named enums.                                                            *)
(***************************************************************************)
\* The ASCII codes of the names the enum tables hold.
N_string == <<115, 116, 114, 105, 110, 103>>
N_bytes == <<98, 121, 116, 101, 115>>
N_str == <<115, 116, 114>>
N_bin == <<98, 105, 110>>
N_array == <<97, 114, 114, 97, 121>>
N_list == <<108, 105, 115, 116>>
N_map == <<109, 97, 112>>
N_dict == <<100, 105, 99, 116>>
N_number == <<110, 117, 109, 98, 101, 114>>
N_nil == <<110, 105, 108>>
N_buffer == <<98, 117, 102, 102, 101, 114>>
N_symbol == <<115, 121, 109, 98, 111, 108>>
N_keyword == <<107, 101, 121, 119, 111, 114, 100>>
N_struct == <<115, 116, 114, 117, 99, 116>>
N_table == <<116, 97, 98, 108, 101>>
N_tuple == <<116, 117, 112, 108, 101>>

MSGPACK_STRING_STRING == 0
MSGPACK_BYTES_STRING == 1

MSGPACK_STRING_TYPE_ENUM ==
    << <<N_string, MSGPACK_STRING_STRING>>, <<N_bytes, MSGPACK_BYTES_STRING>> >>

JANET_TYPE_MUTABLE == 0
JANET_TYPE_IMMUTABLE == 1

MSGPACK_DECODE_CUSTOMIZE_TYPE_ENUM ==
    << <<N_str, "str">>, <<N_string, "str">>, <<N_bin, "bin">>, <<N_bytes, "bin">>,
       <<N_array, "array">>, <<N_list, "array">>, <<N_map, "map">>, <<N_dict, "map">> >>

JANET_TYPE_ENUM ==
    << <<N_number, "number">>, <<N_nil, "nil">>, <<N_string, "string">>,
       <<N_buffer, "buffer">>, <<N_symbol, "symbol">>, <<N_keyword, "keyword">>,
       <<N_struct, "struct">>, <<N_table, "table">> >>

\* parse_named_enum: the value of the first entry whose name is the symbol's
\* or keyword's text; a panic for any other value and for an unknown name.
parse_named_enum(value, enum_name, enum_table) ==
    IF janet_type(value) \notin {"symbol", "keyword"}
    THEN [panic |-> "Expected a keyword or symbol", value |-> 0]
    ELSE LET hits == {i \in 1..Len(enum_table) :
                         /\ Len(enum_table[i][1]) = Len(value.s)
                         /\ enum_table[i][1] = value.s}
         IN  IF hits = {}
             THEN [panic |-> "Expected a " \o enum_name, value |-> 0]
             ELSE [panic |-> "", value |-> enum_table[MinOf(hits)][2]]

(***************************************************************************)
(* The encoder.  A call's outcome is a record: the buffer as the call left *)
(* it and the panic that ended the call ("" when it returned).             *)
(***************************************************************************)
JANET_RECURSION_GUARD == 1024

\* A plausible slip: the guard tripping at the guard constant itself.
recursed_too_deeply_AtGuard(depth) == depth >= JANET_RECURSION_GUARD

\* The test that opens encode_msgpack.
recursed_too_deeply(depth) == depth > JANET_RECURSION_GUARD

Returned(buf) == [buffer |-> buf, panic |-> ""]

janet_panic(buf, msg) == [buffer |-> buf, panic |-> msg]

encode_msgpack_collection_length(buf, len, inline_bitmask, tag_start) ==
    IF len <= 15
    THEN janet_buffer_push_u8(buf, BitOr(inline_bitmask, len))
    ELSE IF len <= 65535
    THEN encode_int_without_tag(janet_buffer_push_u8(buf, tag_start), FromInt32(len), 2)
    ELSE encode_int_without_tag(janet_buffer_push_u8(buf, tag_start + 1), FromInt32(len), 4)

\* A plausible slip: the inline form taken for a short payload of either category.
encode_msgpack_string_InlineBytes(buf, bytes, len, desired_type) ==
    IF len < 32
    THEN janet_buffer_push_bytes(janet_buffer_push_u8(buf, BitOr(160, len)), bytes, len)
    ELSE janet_buffer_push_bytes(
             encode_int_tagged(buf, FromInt32(len),
                 IF len <= 255 THEN 1 ELSE IF len <= 65535 THEN 2 ELSE 4,
                 IF desired_type = MSGPACK_STRING_STRING THEN 217 ELSE 196),
             bytes, len)

encode_msgpack_string(buf, bytes, len, desired_type) ==
    IF len < 32 /\ desired_type = MSGPACK_STRING_STRING
    THEN janet_buffer_push_bytes(janet_buffer_push_u8(buf, BitOr(160, len)), bytes, len)
    ELSE LET needed_len_bytes == IF len <= 255 THEN 1
                                 ELSE IF len <= 65535 THEN 2
                                 ELSE 4
         IN  janet_buffer_push_bytes(
                 encode_int_tagged(buf, FromInt32(len), needed_len_bytes,
                     IF desired_type = MSGPACK_STRING_STRING THEN 217 ELSE 196),
                 bytes, len)

\* ensure_bigendian tests the host when it is called: where the low byte of
\* an int is stored first (x.c[0] == 1, `little_endian`) it returns the
\* eight bytes of the word in reverse order (__builtin_bswap64), and on any
\* other host the word as it is.
ensure_bigendian(val, little_endian) ==
    IF little_endian THEN [i \in 1..8 |-> val[9 - i]] ELSE val

\* janet_buffer_push_u64 writes the word's least significant byte first, on
\* every host (x & 0xFF, then (x >> 8) & 0xFF, ...).
janet_buffer_push_u64(buf, x) == buf \o [i \in 1..8 |-> x[9 - i]]

\* The double's bit pattern as lines 175 and 176 write it.
push_double(buf, bits, little_endian) ==
    janet_buffer_push_u64(buf, ensure_bigendian(bits, little_endian))

\* janet_dictionary_view: count of the entries of a table or struct.
dictionary_count(value) ==
    Cardinality({i \in 1..Len(value.items) : ~janet_checktype(value.items[i][1], "nil")})

\* Reached when the switch is left by break or by goto unknown_type:
\* janet_panicf("Unknown type: %t", value), which names the value's type.
unknown_type(buf, value) == janet_panic(buf, "Unknown type: " \o janet_type(value))

RECURSIVE encode_msgpack(_, _, _, _)
RECURSIVE encode_items(_, _, _, _, _)
RECURSIVE encode_kvs(_, _, _, _, _)

\* for (i = 0; i < len; i++) encode_msgpack(encoder, items[i], depth + 1);
\* a panic in an element ends the loop.
encode_items(encoder, items, i, depth, little_endian) ==
    IF i > Len(items) THEN Returned(encoder.buffer)
    ELSE LET r == encode_msgpack(encoder, items[i], depth + 1, little_endian)
         IN  IF r.panic # "" THEN r
             ELSE encode_items([encoder EXCEPT !.buffer = r.buffer], items, i + 1, depth,
                               little_endian)

\* for (i = 0; i < capacity; i++): skip a nil key, else encode key then value.
encode_kvs(encoder, kvs, i, depth, little_endian) ==
    IF i > Len(kvs) THEN Returned(encoder.buffer)
    ELSE IF janet_checktype(kvs[i][1], "nil")
         THEN encode_kvs(encoder, kvs, i + 1, depth, little_endian)
    ELSE LET k == encode_msgpack(encoder, kvs[i][1], depth + 1, little_endian)
         IN  IF k.panic # "" THEN k
             ELSE LET v == encode_msgpack([encoder EXCEPT !.buffer = k.buffer],
                                          kvs[i][2], depth + 1, little_endian)
                  IN  IF v.panic # "" THEN v
                      ELSE encode_kvs([encoder EXCEPT !.buffer = v.buffer], kvs, i + 1, depth,
                                      little_endian)

\* Every case of the switch but the two 64-bit integer ones ends in break (or
\* goto unknown_type), and the statement after the switch is the unknown_type
\* label: those cases write their bytes and then panic.
encode_msgpack(encoder, value, depth, little_endian) ==
    IF recursed_too_deeply(depth)
    THEN janet_panic(encoder.buffer, "recursed too deeply")
    ELSE LET buf == encoder.buffer
             ty == janet_type(value)
         IN  CASE ty = "nil" ->
                    unknown_type(janet_buffer_push_u8(buf, 192), value)
               [] ty = "boolean" ->
                    unknown_type(janet_buffer_push_u8(buf, IF value.b THEN 195 ELSE 194), value)
               [] ty = "number" ->
                    IF janet_checkint(value)
                    THEN unknown_type(encode_msgpack_int(
                             buf, FromInt32(janet_unwrap_integer(value)), FALSE), value)
                    ELSE unknown_type(push_double(janet_buffer_push_u8(buf, 203), value.n,
                                                  little_endian), value)
               [] ty \in {"symbol", "keyword"} ->
                    unknown_type(encode_msgpack_string(
                        buf, value.s, Len(value.s), MSGPACK_STRING_STRING), value)
               [] ty \in {"string", "buffer"} ->
                    unknown_type(encode_msgpack_string(
                        buf, value.s, Len(value.s),
                        IF ty = "string" THEN encoder.string_type ELSE encoder.buffer_type), value)
               [] ty = "abstract" ->
                    IF JANET_INT_TYPES /\ janet_is_int(value) = "s64"
                    THEN Returned(encode_msgpack_int(buf, value.n, FALSE))
                    ELSE IF JANET_INT_TYPES /\ janet_is_int(value) = "u64"
                    THEN Returned(encode_msgpack_int(buf, value.n, TRUE))
                    ELSE unknown_type(buf, value)
               [] ty \in {"tuple", "array"} ->
                    LET r == encode_items(
                                 [encoder EXCEPT !.buffer =
                                     encode_msgpack_collection_length(
                                         buf, Len(value.items), 144, 220)],
                                 value.items, 1, depth, little_endian)
                    IN  IF r.panic # "" THEN r ELSE unknown_type(r.buffer, value)
               [] ty \in {"table", "struct"} ->
                    LET r == encode_kvs(
                                 [encoder EXCEPT !.buffer =
                                     encode_msgpack_collection_length(
                                         buf, dictionary_count(value), 128, 222)],
                                 value.items, 1, depth, little_endian)
                    IN  IF r.panic # "" THEN r ELSE unknown_type(r.buffer, value)
               [] OTHER -> unknown_type(buf, value)

\* The configuration loop of janet_msgpack_encode over the slots of the
\* config struct: the encoder after entry i and the ones after it, or the
\* panic that ended it.
RECURSIVE encode_config_entries(_, _, _)
encode_config_entries(encoder, jstruct, i) ==
    IF i > Len(jstruct) THEN [encoder |-> encoder, panic |-> ""]
    ELSE IF janet_checktype(jstruct[i][1], "nil")
    THEN encode_config_entries(encoder, jstruct, i + 1)
    ELSE LET type_key == parse_named_enum(jstruct[i][1], "Janet type name", JANET_TYPE_ENUM)
             type_value == parse_named_enum(jstruct[i][2], "msgpack string type",
                                            MSGPACK_STRING_TYPE_ENUM)
         IN  IF type_key.panic # "" THEN [encoder |-> encoder, panic |-> type_key.panic]
             ELSE IF type_value.panic # ""
             THEN [encoder |-> encoder, panic |-> type_value.panic]
             ELSE IF type_key.value = "string"
             THEN encode_config_entries(
                      [encoder EXCEPT !.string_type = type_value.value], jstruct, i + 1)
             ELSE IF type_key.value = "buffer"
             THEN encode_config_entries(
                      [encoder EXCEPT !.buffer_type = type_value.value], jstruct, i + 1)
             ELSE [encoder |-> encoder,
                   panic |-> "Expected either 'string or 'buffer"]

\* A plausible slip: a symbol config that sets the category of strings only.
encode_config_StringsOnly(encoder, config) ==
    CASE janet_type(config) \in {"symbol", "keyword"} ->
            LET st == parse_named_enum(config, "msgpack string type ('string or 'bytes)",
                                       MSGPACK_STRING_TYPE_ENUM)
            IN  IF st.panic # "" THEN [encoder |-> encoder, panic |-> st.panic]
                ELSE [encoder |-> [encoder EXCEPT !.string_type = st.value], panic |-> ""]
      [] janet_type(config) \in {"table", "struct"} ->
            encode_config_entries(encoder, config.items, 1)
      [] OTHER ->
            [encoder |-> encoder,
             panic |-> "Expected either a keyword, symbol, table or struct"]

\* A plausible slip: a config of any other type is passed over in silence.
encode_config_AcceptsAny(encoder, config) ==
    CASE janet_type(config) \in {"symbol", "keyword"} ->
            LET st == parse_named_enum(config, "msgpack string type ('string or 'bytes)",
                                       MSGPACK_STRING_TYPE_ENUM)
            IN  IF st.panic # "" THEN [encoder |-> encoder, panic |-> st.panic]
                ELSE [encoder |-> [encoder EXCEPT !.string_type = st.value,
                                                  !.buffer_type = st.value],
                      panic |-> ""]
      [] janet_type(config) \in {"table", "struct"} ->
            encode_config_entries(encoder, config.items, 1)
      [] OTHER -> [encoder |-> encoder, panic |-> ""]

\* The if (argc > 1) block of janet_msgpack_encode: the encoder the config
\* argument resolves to, or the panic it raises.
encode_config(encoder, config) ==
    CASE janet_type(config) \in {"symbol", "keyword"} ->
            LET st == parse_named_enum(config, "msgpack string type ('string or 'bytes)",
                                       MSGPACK_STRING_TYPE_ENUM)
            IN  IF st.panic # "" THEN [encoder |-> encoder, panic |-> st.panic]
                ELSE [encoder |-> [encoder EXCEPT !.string_type = st.value,
                                                  !.buffer_type = st.value],
                      panic |-> ""]
      [] janet_type(config) \in {"table", "struct"} ->
            encode_config_entries(encoder, config.items, 1)
      [] OTHER ->
            [encoder |-> encoder,
             panic |-> "Expected either a keyword, symbol, table or struct"]

\* janet_msgpack_encode(argc, argv), argv = <<value, config, sink>> cut to
\* argc; `held` is the content of the caller's buffer, which argv[2] may be.
\* The outcome: the buffer the call wrote into ("arg": the one passed,
\* "fresh": one the call made), its content, the panic or "", and the
\* buffer returned ("none" after a panic).
janet_msgpack_encode(argc, argv, held, little_endian) ==
    LET sinkarg == IF argc > 2 THEN argv[3] ELSE janet_wrap_nil
        fresh == janet_checktype(sinkarg, "nil")
        sink == IF fresh THEN "fresh" ELSE "arg"
        start == IF fresh THEN <<>> ELSE held
        encoder0 == [buffer |-> start,
                     string_type |-> MSGPACK_STRING_STRING,
                     buffer_type |-> MSGPACK_BYTES_STRING]
    IN  IF argc < 1 \/ argc > 3
        THEN [sink |-> "none", buffer |-> <<>>, panic |-> "arity mismatch", returned |-> "none"]
        ELSE IF ~fresh /\ ~janet_checktype(sinkarg, "buffer")
        THEN [sink |-> "none", buffer |-> <<>>, panic |-> "bad slot #2, expected buffer",
              returned |-> "none"]
        ELSE LET cfg == IF argc > 1 THEN encode_config(encoder0, argv[2])
                        ELSE [encoder |-> encoder0, panic |-> ""]
             IN  IF cfg.panic # ""
                 THEN [sink |-> sink, buffer |-> start, panic |-> cfg.panic,
                       returned |-> "none"]
                 ELSE LET r == encode_msgpack(cfg.encoder, argv[1], 0, little_endian)
                      IN  [sink |-> sink, buffer |-> r.buffer, panic |-> r.panic,
                           returned |-> IF r.panic = "" THEN sink ELSE "none"]

(***************************************************************************)
(* The MessagePack reader (the mpack library, used through mpack.h): tags  *)
(* are parsed as the MessagePack format defines them.  The reader is the   *)
(* input `data` and the number `pos` of bytes consumed.  Any reader error  *)
(* reaches janet_msgpack_error_handler, which panics.                      *)
(***************************************************************************)
\* The n bytes after position pos, zero-extended to a word.
LoadU(data, pos, n) == Widen(SubSeq(data, pos + 1, pos + n), 0)

\* The n bytes after position pos, sign-extended to a word.
LoadI(data, pos, n) == Widen(SubSeq(data, pos + 1, pos + n),
                             IF data[pos + 1] >= 128 THEN 255 ELSE 0)

Tag(type, v, pos) == [error |-> "", type |-> type, v |-> v, pos |-> pos]

TagError(msg, pos) == [error |-> msg, type |-> "missing", v |-> Zero64, pos |-> pos]

\* A tag of `type` whose value is the n bytes after the type byte.
TagWithPayload(data, pos, type, n, signed) ==
    IF pos + 1 + n > Len(data) THEN TagError("invalid", pos)
    ELSE Tag(type, IF signed THEN LoadI(data, pos + 1, n) ELSE LoadU(data, pos + 1, n),
             pos + 1 + n)

\* mpack_read_tag: the tag at the cursor and the cursor after it.
mpack_read_tag(data, pos) ==
    IF pos >= Len(data) THEN TagError("invalid", pos)
    ELSE LET t == data[pos + 1]
         IN  CASE t <= 127 -> Tag("uint", FromInt32(t), pos + 1)
               [] t \in 128..143 -> Tag("map", FromInt32(t % 16), pos + 1)
               [] t \in 144..159 -> Tag("array", FromInt32(t % 16), pos + 1)
               [] t \in 160..191 -> Tag("str", FromInt32(t % 32), pos + 1)
               [] t = 192 -> Tag("nil", Zero64, pos + 1)
               [] t = 193 -> TagError("invalid", pos)
               [] t = 194 -> Tag("bool", Zero64, pos + 1)
               [] t = 195 -> Tag("bool", FromInt32(1), pos + 1)
               [] t \in 196..198 -> TagWithPayload(data, pos, "bin", 2 ^ (t - 196), FALSE)
               [] t \in 199..201 -> TagError("unsupported", pos)
               [] t = 202 -> TagWithPayload(data, pos, "float", 4, FALSE)
               [] t = 203 -> TagWithPayload(data, pos, "double", 8, FALSE)
               [] t \in 204..207 -> TagWithPayload(data, pos, "uint", 2 ^ (t - 204), FALSE)
               [] t \in 208..211 -> TagWithPayload(data, pos, "int", 2 ^ (t - 208), TRUE)
               [] t \in 212..216 -> TagError("unsupported", pos)
               [] t \in 217..219 -> TagWithPayload(data, pos, "str", 2 ^ (t - 217), FALSE)
               [] t \in 220..221 -> TagWithPayload(data, pos, "array", 2 ^ (t - 219), FALSE)
               [] t \in 222..223 -> TagWithPayload(data, pos, "map", 2 ^ (t - 221), FALSE)
               [] OTHER -> Tag("int", Widen(<<t>>, 255), pos + 1)

\* The double a float32 widens to; f is the float's bit pattern in the low
\* four bytes of a word.
FloatToDouble(f) ==
    LET sign == f[5] \div 128
        exp8 == (f[5] % 128) * 2 + (f[6] \div 128)
        mant == (f[6] % 128) * 65536 + f[7] * 256 + f[8]
        p == Log2(mant)
        E == IF exp8 = 255 THEN 2047
             ELSE IF exp8 # 0 THEN exp8 + 896
             ELSE IF mant = 0 THEN 0
             ELSE p + 874
    IN  Pack64([k \in 1..64 |->
            IF k = 1 THEN sign
            ELSE IF k <= 12 THEN (E \div (2 ^ (12 - k))) % 2
            ELSE IF exp8 = 0 /\ mant # 0
                 THEN (IF k - 12 <= p THEN ((mant - 2 ^ p) \div (2 ^ (p - (k - 12)))) % 2 ELSE 0)
            ELSE IF exp8 = 255 /\ mant # 0 /\ k = 13 THEN 1
            ELSE IF k <= 35 THEN (mant \div (2 ^ (35 - k))) % 2
            ELSE 0])

\* mpack's UTF-8 check of bytes[i..]: well-formed, no overlong form, no
\* surrogate, nothing above U+10FFFF.
IsCont(bytes, i) == i <= Len(bytes) /\ bytes[i] \in 128..191

RECURSIVE utf8_check(_, _)
utf8_check(bytes, i) ==
    IF i > Len(bytes) THEN TRUE
    ELSE LET lead == bytes[i]
         IN  IF lead <= 127 THEN utf8_check(bytes, i + 1)
             ELSE IF lead \in 192..223
             THEN /\ IsCont(bytes, i + 1)
                  /\ (lead % 32) * 64 + (bytes[i + 1] % 64) >= 128
                  /\ utf8_check(bytes, i + 2)
             ELSE IF lead \in 224..239
             THEN /\ IsCont(bytes, i + 1) /\ IsCont(bytes, i + 2)
                  /\ LET z == (lead % 16) * 4096 + (bytes[i + 1] % 64) * 64
                                + (bytes[i + 2] % 64)
                     IN  z >= 2048 /\ ~(z \in 55296..57343)
                  /\ utf8_check(bytes, i + 3)
             ELSE IF lead \in 240..247
             THEN /\ IsCont(bytes, i + 1) /\ IsCont(bytes, i + 2) /\ IsCont(bytes, i + 3)
                  /\ LET z == (lead % 8) * 262144 + (bytes[i + 1] % 64) * 4096
                                + (bytes[i + 2] % 64) * 64 + (bytes[i + 3] % 64)
                     IN  z >= 65536 /\ z <= 1114111
                  /\ utf8_check(bytes, i + 4)
             ELSE FALSE

(***************************************************************************)
(* The decoder.  A call's outcome is a record: the value, the cursor, the  *)
(* decoder's string_type as the call left it, and the panic that ended the *)
(* call ("" when it returned).                                             *)
(***************************************************************************)
Decoded(value, pos, string_type) ==
    [value |-> value, pos |-> pos, string_type |-> string_type, panic |-> ""]

DecodePanic(msg, pos, string_type) ==
    [value |-> janet_wrap_nil, pos |-> pos, string_type |-> string_type, panic |-> msg]

\* check_length_cast: whether the uint32 length passes (it is at most INT32_MAX).
check_length_cast(len) == ULe(len, W_INT32_MAX)

\* janet_buffer_push_cstring(buffer, data): the bytes from data up to the
\* first zero byte.  `memory` is what lies at data: the rest of the input
\* followed by whatever follows the input in memory.
janet_buffer_push_cstring(buf, memory) ==
    LET zeros == {i \in 1..Len(memory) : memory[i] = 0}
    IN  buf \o SubSeq(memory, 1, IF zeros = {} THEN Len(memory) ELSE MinOf(zeros) - 1)

\* `beyond`: the bytes that follow the input in memory, up to the first zero.
decode_msgpack_string(decoder, data, pos, len, string_type, beyond) ==
    IF ~check_length_cast(len)
    THEN DecodePanic("Length overflowed int32", pos, decoder.string_type)
    ELSE LET n == ToInt32(len)
             decoded_type == IF string_type = MSGPACK_STRING_STRING
                             THEN decoder.string_type
                             ELSE IF decoder.bin_type = JANET_TYPE_MUTABLE
                                  THEN "buffer" ELSE "string"
             bytes == SubSeq(data, pos + 1, pos + n)
         IN  IF decoded_type \notin {"string", "keyword", "symbol", "buffer"}
             THEN DecodePanic("Unsupported string type", pos, decoder.string_type)
             ELSE IF n > Len(data) - pos
             THEN DecodePanic("Error decoding msgpack: invalid", pos, decoder.string_type)
             ELSE IF decoded_type # "buffer" /\ ~utf8_check(bytes, 1)
             THEN DecodePanic("Error decoding msgpack: type", pos, decoder.string_type)
             ELSE Decoded(
                      CASE decoded_type = "string" -> janet_wrap_string(bytes)
                        [] decoded_type = "buffer" ->
                              janet_wrap_buffer(janet_buffer_push_cstring(
                                  <<>>, SubSeq(data, pos + 1, Len(data)) \o beyond))
                        [] decoded_type = "symbol" -> janet_symbolv(bytes)
                        [] decoded_type = "keyword" -> janet_keywordv(bytes),
                      pos + n, decoder.string_type)

\* Whether the double pattern is a NaN: exponent all ones, fraction not zero.
isnan(w) ==
    /\ DoubleExp(w) = 2047
    /\ (w[2] % 16 # 0 \/ \E i \in 3..8 : w[i] # 0)

\* x == y on doubles: a NaN equals nothing, and 0.0 equals -0.0.
double_equals(x, y) ==
    /\ ~isnan(x)
    /\ ~isnan(y)
    /\ \/ x = y
       \/ /\ x[1] \in {0, 128} /\ y[1] \in {0, 128}
          /\ \A i \in 2..8 : x[i] = 0 /\ y[i] = 0

\* janet_equals on decoded values: arrays, tables and buffers are equal only
\* to themselves, and every decoded one is a new object; numbers are
\* compared as doubles.  Boxed 64-bit integers are compared as the Janet
\* library the module is built against compares abstract values: by their
\* value when `by_value` (the type's compare and hash hooks are used), and
\* as objects, each equal only to itself, otherwise.
RECURSIVE janet_equals(_, _, _)
janet_equals(a, b, by_value) ==
    /\ a.t = b.t
    /\ a.t \notin {"array", "table", "buffer", "abstract"}
    /\ a.t \in {"s64", "u64"} => by_value
    /\ a.b = b.b /\ a.s = b.s
    /\ IF a.t = "number" THEN double_equals(a.n, b.n) ELSE a.n = b.n
    /\ Len(a.items) = Len(b.items)
    /\ IF a.t = "struct"
       THEN \A i \in 1..Len(a.items) : \E j \in 1..Len(b.items) :
                /\ janet_equals(a.items[i][1], b.items[j][1], by_value)
                /\ janet_equals(a.items[i][2], b.items[j][2], by_value)
       ELSE \A i \in 1..Len(a.items) : janet_equals(a.items[i], b.items[i], by_value)

\* The entries (in insertion order) after putting key -> value: an entry
\* whose key equals the key keeps its key and takes the value.
PutEntry(entries, key, value, by_value) ==
    LET same == {i \in 1..Len(entries) : janet_equals(entries[i][1], key, by_value)}
    IN  IF same = {} THEN Append(entries, <<key, value>>)
        ELSE [entries EXCEPT ![MinOf(same)] = <<entries[MinOf(same)][1], value>>]

RemoveEntry(entries, key, by_value) ==
    LET keep == {i \in 1..Len(entries) : ~janet_equals(entries[i][1], key, by_value)}
        Nth(k) == CHOOSE i \in keep : Cardinality({j \in keep : j < i}) = k - 1
    IN  [k \in 1..Cardinality(keep) |-> entries[Nth(k)]]

\* Whether the key is a number that is a NaN.
nan_key(key) == janet_checktype(key, "number") /\ isnan(key.n)

\* janet_table_put: a nil key and a NaN key are ignored, and a nil value
\* removes the key.
janet_table_put(entries, key, value, by_value) ==
    IF janet_checktype(key, "nil") \/ nan_key(key) THEN entries
    ELSE IF janet_checktype(value, "nil") THEN RemoveEntry(entries, key, by_value)
    ELSE PutEntry(entries, key, value, by_value)

\* janet_struct_put: a nil key, a NaN key or a nil value is ignored.
janet_struct_put(entries, key, value, by_value) ==
    IF janet_checktype(key, "nil") \/ nan_key(key) \/ janet_checktype(value, "nil")
    THEN entries
    ELSE PutEntry(entries, key, value, by_value)

\* A plausible slip: the key-time override left out.
key_string_type_Unchanged(old_string_type) == old_string_type

\* The string_type in force while a map key is decoded.
key_string_type(old_string_type) == "keyword"

\* A plausible slip: the map's mutability read from the right field.
map_is_table_FromMapType(decoder) == decoder.map_type = JANET_TYPE_MUTABLE

\* Whether a wire map becomes a table: the test is made on array_type.
map_is_table(decoder) == decoder.array_type = JANET_TYPE_MUTABLE

\* A plausible slip: a uint handled as an int is.
decode_msgpack_integer_AsSigned(tag, st, int_types) ==
    IF SLe(W_INT32_MIN, tag.v) /\ SLe(tag.v, W_INT32_MAX)
    THEN Decoded(janet_wrap_integer(ToInt32(tag.v)), tag.pos, st)
    ELSE IF int_types
    THEN Decoded(janet_wrap_s64(tag.v), tag.pos, st)
    ELSE DecodePanic("64-bit numbers are too large", tag.pos, st)

\* The cases mpack_type_int and mpack_type_uint of decode_msgpack;
\* int_types says whether the build has JANET_INT_TYPES.
decode_msgpack_integer(tag, st, int_types) ==
    IF tag.type = "int"
    THEN IF SLe(W_INT32_MIN, tag.v) /\ SLe(tag.v, W_INT32_MAX)
         THEN Decoded(janet_wrap_integer(ToInt32(tag.v)), tag.pos, st)
         ELSE IF int_types
         THEN Decoded(janet_wrap_s64(tag.v), tag.pos, st)
         ELSE DecodePanic("64-bit numbers are too large", tag.pos, st)
    ELSE IF ULe(tag.v, W_INT32_MAX)
         THEN Decoded(janet_wrap_integer(ToInt32(tag.v)), tag.pos, st)
         ELSE IF int_types
         THEN Decoded(janet_wrap_u64(tag.v), tag.pos, st)
         ELSE DecodePanic("64-bit numbers are too large", tag.pos, st)

\* A guard that also refuses the depth equal to the guard constant.
decode_recursed_too_deeply_AtGuard(depth) == depth >= JANET_RECURSION_GUARD

\* The test that opens decode_msgpack.
decode_recursed_too_deeply(depth) == depth > JANET_RECURSION_GUARD

RECURSIVE decode_msgpack(_, _, _, _, _, _)
RECURSIVE decode_items(_, _, _, _, _, _, _, _)
RECURSIVE decode_kvs(_, _, _, _, _, _, _, _)

\* A loop that, when an element fails, returns the elements read so far.
decode_items_KeepPartial(decoder, data, pos, depth, beyond, by_value, left, acc) ==
    IF left = 0 THEN Decoded(acc, pos, decoder.string_type)
    ELSE LET r == decode_msgpack(decoder, data, pos, depth + 1, beyond, by_value)
         IN  IF r.panic # "" THEN Decoded(acc, pos, decoder.string_type)
             ELSE decode_items([decoder EXCEPT !.string_type = r.string_type],
                               data, r.pos, depth, beyond, by_value, left - 1, Append(acc, r.value))

\* The array loop: `left` elements still to read, `acc` the ones read.
decode_items(decoder, data, pos, depth, beyond, by_value, left, acc) ==
    IF left = 0 THEN Decoded(acc, pos, decoder.string_type)
    ELSE LET r == decode_msgpack(decoder, data, pos, depth + 1, beyond, by_value)
         IN  IF r.panic # "" THEN r
             ELSE decode_items([decoder EXCEPT !.string_type = r.string_type],
                               data, r.pos, depth, beyond, by_value, left - 1, Append(acc, r.value))

\* The map loop: the key is decoded with string_type forced to keyword, the
\* value with the old string_type restored.
decode_kvs(decoder, data, pos, depth, beyond, by_value, left, acc) ==
    IF left = 0 THEN Decoded(acc, pos, decoder.string_type)
    ELSE LET old_string_type == decoder.string_type
             k == decode_msgpack(
                      [decoder EXCEPT !.string_type = key_string_type(old_string_type)],
                      data, pos, depth + 1, beyond, by_value)
         IN  IF k.panic # "" THEN k
             ELSE LET v == decode_msgpack([decoder EXCEPT !.string_type = old_string_type],
                                          data, k.pos, depth + 1, beyond, by_value)
                  IN  IF v.panic # "" THEN v
                      ELSE decode_kvs(
                               [decoder EXCEPT !.string_type = v.string_type],
                               data, v.pos, depth, beyond, by_value, left - 1,
                               IF map_is_table(decoder)
                               THEN janet_table_put(acc, k.value, v.value, by_value)
                               ELSE janet_struct_put(acc, k.value, v.value, by_value))

decode_msgpack(decoder, data, pos, depth, beyond, by_value) ==
    IF decode_recursed_too_deeply(depth)
    THEN DecodePanic("mspgack decoding recursed too deeply", pos, decoder.string_type)
    ELSE LET tag == mpack_read_tag(data, pos)
             st == decoder.string_type
         IN  IF tag.error # ""
             THEN DecodePanic("Error decoding msgpack: " \o tag.error, pos, st)
             ELSE CASE tag.type = "nil" -> Decoded(janet_wrap_nil, tag.pos, st)
                    [] tag.type = "bool" ->
                          Decoded(janet_wrap_boolean(tag.v # Zero64), tag.pos, st)
                    [] tag.type \in {"int", "uint"} ->
                          decode_msgpack_integer(tag, st, JANET_INT_TYPES)
                    [] tag.type = "float" ->
                          Decoded(janet_wrap_number(FloatToDouble(tag.v)), tag.pos, st)
                    [] tag.type = "double" ->
                          Decoded(janet_wrap_number(tag.v), tag.pos, st)
                    [] tag.type = "str" ->
                          decode_msgpack_string(decoder, data, tag.pos, tag.v,
                                                MSGPACK_STRING_STRING, beyond)
                    [] tag.type = "bin" ->
                          decode_msgpack_string(decoder, data, tag.pos, tag.v,
                                                MSGPACK_BYTES_STRING, beyond)
                    [] tag.type = "array" ->
                          IF ~check_length_cast(tag.v)
                          THEN DecodePanic("Length overflowed int32", tag.pos, st)
                          ELSE LET r == decode_items(decoder, data, tag.pos, depth, beyond, by_value,
                                                     ToInt32(tag.v), <<>>)
                               IN  IF r.panic # "" THEN r
                                   ELSE Decoded(
                                            IF decoder.array_type = JANET_TYPE_MUTABLE
                                            THEN janet_wrap_array(r.value)
                                            ELSE janet_wrap_tuple(r.value),
                                            r.pos, r.string_type)
                    [] tag.type = "map" ->
                          IF ~check_length_cast(tag.v)
                          THEN DecodePanic("Length overflowed int32", tag.pos, st)
                          ELSE LET r == decode_kvs(decoder, data, tag.pos, depth, beyond, by_value,
                                                   ToInt32(tag.v), <<>>)
                               IN  IF r.panic # "" THEN r
                                   ELSE Decoded(
                                            IF map_is_table(decoder)
                                            THEN janet_wrap_table(r.value)
                                            ELSE janet_wrap_struct(r.value),
                                            r.pos, r.string_type)
                    [] OTHER -> DecodePanic("Unsupported msgpack type", tag.pos, st)

\* One entry of the decode configuration: the decoder after it, whether the
\* loop goes on to the next entry, and the panic it raises.
\* The macro argument as HANDLE_CASE stringizes it (#immutable_variant).
StringizedType(t) ==
    CASE t = "string" -> "JANET_STRING"
      [] t = "buffer" -> "JANET_BUFFER"
      [] t = "tuple" -> "JANET_TUPLE"
      [] t = "array" -> "JANET_ARRAY"
      [] t = "struct" -> "JANET_STRUCT"
      [] t = "table" -> "JANET_TABLE"

decode_config_entry(decoder, key, value) ==
    LET msgpack_type == parse_named_enum(key, "msgpack type name",
                                         MSGPACK_DECODE_CUSTOMIZE_TYPE_ENUM)
        decoded_type == parse_named_enum(value, "Janet type name", JANET_TYPE_ENUM)
        Bad(msg) == [decoder |-> decoder, goon |-> FALSE, panic |-> msg]
        Set(d) == [decoder |-> d, goon |-> TRUE, panic |-> ""]
        Choose(field, immutable_variant, mutable_variant) ==
            IF decoded_type.value = mutable_variant
            THEN Set([decoder EXCEPT ![field] = JANET_TYPE_MUTABLE])
            ELSE IF decoded_type.value = immutable_variant
            THEN Set([decoder EXCEPT ![field] = JANET_TYPE_IMMUTABLE])
            ELSE Bad("Expected either Janet type " \o StringizedType(immutable_variant)
                     \o " or " \o StringizedType(mutable_variant))
    IN  IF msgpack_type.panic # "" THEN Bad(msgpack_type.panic)
        ELSE IF decoded_type.panic # "" THEN Bad(decoded_type.panic)
        ELSE IF msgpack_type.value = "str"
        THEN IF decoded_type.value \in {"keyword", "symbol", "string", "buffer"}
             THEN [decoder |-> [decoder EXCEPT !.string_type = decoded_type.value],
                   goon |-> FALSE, panic |-> ""]
             ELSE Bad("Invalid string type")
        ELSE CASE msgpack_type.value = "bin" -> Choose("bin_type", "string", "buffer")
               [] msgpack_type.value = "array" -> Choose("array_type", "tuple", "array")
               [] msgpack_type.value = "map" -> Choose("map_type", "struct", "table")
               [] OTHER -> Bad("Unable to customize Janet type")

\* The configuration loop of janet_msgpack_decode over the slots of the
\* config struct; an entry for str ends the loop (break).
RECURSIVE decode_config_entries(_, _, _)
decode_config_entries(decoder, jstruct, i) ==
    IF i > Len(jstruct) THEN [decoder |-> decoder, panic |-> ""]
    ELSE IF janet_checktype(jstruct[i][1], "nil")
    THEN decode_config_entries(decoder, jstruct, i + 1)
    ELSE LET r == decode_config_entry(decoder, jstruct[i][1], jstruct[i][2])
         IN  IF r.panic # "" \/ ~r.goon THEN [decoder |-> r.decoder, panic |-> r.panic]
             ELSE decode_config_entries(r.decoder, jstruct, i + 1)

\* The if (argc > 1) block of janet_msgpack_decode.
decode_config(decoder, config) ==
    IF janet_type(config) \in {"table", "struct"}
    THEN decode_config_entries(decoder, config.items, 1)
    ELSE [decoder |-> decoder, panic |-> "Expected either a table or struct"]

\* The most arguments janet_arity lets janet_msgpack_decode take.
decode_max_arity == 1

default_decoder ==
    [string_type |-> "string",
     bin_type |-> JANET_TYPE_MUTABLE,
     array_type |-> JANET_TYPE_MUTABLE,
     map_type |-> JANET_TYPE_MUTABLE]

\* janet_msgpack_decode(argc, argv), argv = <<bytes, config>> cut to argc,
\* `data` the bytes of argv[0].
janet_msgpack_decode(argc, argv, data, beyond, by_value) ==
    IF argc < 1 \/ argc > decode_max_arity
    THEN DecodePanic("arity mismatch", 0, "string")
    ELSE LET cfg == IF argc > 1 THEN decode_config(default_decoder, argv[2])
                    ELSE [decoder |-> default_decoder, panic |-> ""]
         IN  IF cfg.panic # "" THEN DecodePanic(cfg.panic, 0, cfg.decoder.string_type)
             ELSE decode_msgpack(cfg.decoder, data, 0, 0, beyond, by_value)

(***************************************************************************)
(* The program: a caller that holds one byte buffer and calls              *)
(* msgpack/encode and msgpack/decode (as src/test/test.janet does with the *)
(* bytes of a file).  `buffer` is the sink of the last encode, or the      *)
(* bytes read; `origin` says which, and whether the caller holds it.       *)
(***************************************************************************)
\* A caller-supplied sink is taken only while it holds at most MaxPrefix bytes.
MaxPrefix == 1

I(i) == janet_wrap_integer(i)

\* The values handed to msgpack/encode.
EncodeValues ==
    { janet_wrap_nil, janet_wrap_boolean(TRUE), janet_wrap_boolean(FALSE),
      I(0), I(1), I(127), I(128), I(-1), I(-33), I(-100), I(65536),
      janet_wrap_number(<<63, 248, 0, 0, 0, 0, 0, 0>>),            \* 1.5
      janet_wrap_string(<<>>), janet_wrap_string(<<97>>),
      janet_wrap_string(<<104, 105>>),
      janet_wrap_buffer(<<104, 105>>), janet_wrap_buffer(<<104, 0, 105>>),
      janet_symbolv(<<97>>), janet_keywordv(<<97>>),
      janet_wrap_tuple(<<I(1), I(2), I(3)>>), janet_wrap_array(<<I(1), I(2), I(3)>>),
      janet_wrap_array(<<>>), janet_wrap_array(<<janet_wrap_array(<<I(1)>>)>>),
      janet_wrap_array(<<janet_wrap_s64(FromInt32(1)), janet_wrap_u64(FromInt32(200))>>),
      janet_wrap_table(<< <<janet_wrap_nil, janet_wrap_nil>>,
                          <<janet_wrap_string(<<97>>), I(1)>> >>),
      janet_wrap_struct(<< <<janet_keywordv(<<97>>), I(1)>> >>),
      janet_wrap_table(<<>>),
      Mk("function"), Mk("abstract"),
      janet_wrap_s64(FromInt32(1)), janet_wrap_s64(FromInt32(-100)),
      janet_wrap_s64(<<0, 0, 0, 1, 0, 0, 0, 0>>),
      janet_wrap_u64(FromInt32(5)), janet_wrap_u64(<<128, 0, 0, 0, 0, 0, 0, 0>>) }

\* The values given as msgpack/encode's second argument.
EncodeConfigs ==
    { janet_symbolv(N_string), janet_symbolv(N_bytes), janet_keywordv(N_bytes),
      janet_symbolv(N_str),
      janet_wrap_struct(<< <<janet_keywordv(N_string), janet_symbolv(N_bytes)>> >>),
      janet_wrap_table(<< <<janet_wrap_nil, janet_wrap_nil>>,
                          <<janet_keywordv(N_buffer), janet_symbolv(N_string)>> >>),
      janet_wrap_struct(<< <<janet_keywordv(N_string), janet_symbolv(N_bytes)>>,
                           <<janet_keywordv(N_buffer), janet_symbolv(N_string)>> >>),
      janet_wrap_struct(<< <<janet_keywordv(N_number), janet_symbolv(N_bytes)>> >>),
      janet_wrap_struct(<< <<janet_keywordv(N_string), janet_symbolv(N_bin)>> >>),
      I(1), janet_wrap_nil }

\* The caller's buffer, passed by reference, as an argument.
TheBuffer == janet_wrap_buffer(<<>>)

\* The byte strings read from files.
DecodeInputs ==
    { <<192>>, <<195>>, <<194>>, <<5>>, <<255>>,
      <<147, 1, 2, 3>>,
      <<129, 161, 97, 1>>,                         \* {"a": 1}
      <<129, 161, 97, 161, 98>>,                   \* {"a": "b"}
      <<130, 161, 97, 161, 98, 196, 1, 99, 217, 1, 100>>, \* {"a": "b", bin"c": "d"}
      <<129, 145, 161, 97, 161, 98>>,              \* {["a"]: "b"}
      <<129, 161, 97, 129, 161, 98, 161, 99>>,     \* {"a": {"b": "c"}}
      <<130, 161, 97, 1, 161, 97, 2>>,             \* {"a": 1, "a": 2}
      <<129, 161, 97, 192>>,                       \* {"a": nil}
      <<129, 1, 161, 98>>,                         \* {1: "b"}
      <<128>>, <<144>>,
      <<145, 161, 97>>,                            \* ["a"]
      <<162, 104, 105>>, <<196, 2, 104, 105>>, <<196, 3, 104, 0, 105>>,
      <<203, 63, 248, 0, 0, 0, 0, 0, 0>>, <<202, 63, 192, 0, 0>>,
      <<204, 128>>, <<208, 156>>, <<206, 128, 0, 0, 0>>,
      <<207, 128, 0, 0, 0, 0, 0, 0, 0>>, <<211, 128, 0, 0, 0, 0, 0, 0, 0>>,
      <<147, 1>>, <<193>>, <<>>, <<192, 1>>, <<161, 255>>, <<162, 104>>,
      <<221, 128, 0, 0, 0>>, <<199, 0, 1>>,
      <<196, 1, 97, 98, 0>>,                       \* bin "a", then two more bytes
      <<146, 1, 161, 97, 2, 3>>,                   \* [1, "a"], then two more bytes
      <<208, 128>>, <<209, 128, 0>>, <<210, 128, 0, 0, 0>>, <<210, 127, 255, 255, 255>>,
      <<211, 255, 255, 255, 255, 127, 255, 255, 255>>,
      <<211, 0, 0, 0, 0, 128, 0, 0, 0>>, <<205, 255, 255>>, <<206, 127, 255, 255, 255>>,
      <<207, 0, 0, 0, 0, 127, 255, 255, 255>>, <<207, 0, 0, 0, 1, 0, 0, 0, 0>>,
      <<207, 255, 255, 255, 255, 255, 255, 255, 255>>, <<224>>, <<127>>,
      \* Length fields above 2^31 - 1, and inputs that end too early.
      <<219, 128, 0, 0, 0>>, <<198, 128, 0, 0, 0>>, <<223, 128, 0, 0, 0>>,
      <<145, 221, 255, 255, 255, 255>>, <<221, 0, 1, 0, 0>>,
      <<196, 2, 104>>, <<205, 1>>, <<129, 161, 97>> }

\* The values given as msgpack/decode's second argument.
DecodeConfigs ==
    { janet_wrap_struct(<< <<janet_keywordv(N_array), janet_keywordv(N_tuple)>> >>),
      janet_wrap_struct(<< <<janet_keywordv(N_bin), janet_keywordv(N_string)>> >>),
      janet_wrap_struct(<< <<janet_keywordv(N_str), janet_keywordv(N_keyword)>>,
                           <<janet_keywordv(N_map), janet_keywordv(N_struct)>> >>),
      janet_wrap_table(<< <<janet_keywordv(N_map), janet_keywordv(N_struct)>> >>),
      janet_wrap_nil }

\* What may follow the input in memory, up to the first zero byte: reading
\* it is undefined behaviour, so each is a possible outcome.
PastEnd == {<<>>, <<170>>}

Origin(kind, argc, argv, sink, returned) ==
    [kind |-> kind, argc |-> argc, argv |-> argv, sink |-> sink, returned |-> returned]

NoCall == [argc |-> 0, argv |-> <<>>]

NoRet == [status |-> "none", panic |-> "", out |-> <<>>]

\* Whether the caller holds `buffer`: it made it, read it, passed it as the
\* sink, or was returned it.
Holds ==
    \/ origin.kind \in {"none", "file"}
    \/ origin.sink = "arg"
    \/ origin.returned

Init ==
    /\ op = "none"
    /\ args = NoCall
    /\ buffer = <<>>
    /\ origin = Origin("none", 0, <<>>, "none", FALSE)
    /\ ret = NoRet

\* The caller reads a file into a buffer (src/test/test.janet).
ReadFile ==
    \E data \in DecodeInputs :
        /\ op' = "read"
        /\ args' = NoCall
        /\ buffer' = data
        /\ origin' = Origin("file", 0, <<>>, "none", FALSE)
        /\ ret' = [status |-> "ok", panic |-> "", out |-> data]

\* The values encoded under every configuration.
ConfigValues ==
    { v \in EncodeValues :
        \/ v.t \in {"string", "buffer", "symbol", "keyword", "nil", "table", "function"}
        \/ v = janet_wrap_u64(FromInt32(5)) }

\* The argument lists of the calls of msgpack/encode.
EncodeCalls ==
    {<<v>> : v \in EncodeValues}
    \cup {<<v, c>> : v \in ConfigValues, c \in EncodeConfigs}
    \cup {<<v, janet_symbolv(N_string), s>> : v \in EncodeValues, s \in {TheBuffer, janet_wrap_nil}}
    \cup {<<v, c, TheBuffer>> : v \in ConfigValues, c \in EncodeConfigs}
    \cup {<<v, janet_symbolv(N_string), I(1)>> : v \in {janet_wrap_nil, janet_wrap_u64(FromInt32(5))}}

\* (msgpack/encode value), (msgpack/encode value config) or
\* (msgpack/encode value config sink).  `origin` keeps the arguments of a
\* call that returned, since its result is what the caller then holds.
Encode ==
    \E argv \in EncodeCalls, little_endian \in BOOLEAN :
        \E r \in {janet_msgpack_encode(Len(argv), argv, buffer, little_endian)} :
            /\ (Len(argv) = 3 /\ argv[3] = TheBuffer) => (Holds /\ Len(buffer) <= MaxPrefix)
            /\ op' = "encode"
            /\ args' = [argc |-> Len(argv), argv |-> argv, little_endian |-> little_endian]
            /\ buffer' = IF r.sink = "none" THEN buffer ELSE r.buffer
            /\ origin' = IF r.sink = "none" THEN origin
                         ELSE IF r.panic = "" THEN Origin("encode", Len(argv), argv, r.sink, TRUE)
                         ELSE Origin("encode", 0, <<>>, r.sink, FALSE)
            /\ ret' = [status |-> IF r.panic = "" THEN "ok" ELSE "panic",
                       panic |-> r.panic,
                       sink |-> r.sink,
                       returned |-> r.returned,
                       before |-> IF r.sink = "arg" THEN buffer ELSE <<>>,
                       out |-> IF r.sink = "none" THEN <<>> ELSE r.buffer]

\* (msgpack/decode buffer) or (msgpack/decode buffer config).
Decode ==
    \E argc \in 1..2, config \in DecodeConfigs, beyond \in PastEnd, by_value \in BOOLEAN :
        \E argv \in {SubSeq(<<janet_wrap_buffer(buffer), config>>, 1, argc)} :
        \E r \in {janet_msgpack_decode(argc, argv, buffer, beyond, by_value)} :
            /\ Holds
            /\ op' = "decode"
            /\ args' = [argc |-> argc, argv |-> argv]
            /\ UNCHANGED <<buffer, origin>>
            /\ ret' = [status |-> IF r.panic = "" THEN "ok" ELSE "panic",
                       panic |-> r.panic,
                       value |-> r.value,
                       pos |-> r.pos]

Next == ReadFile \/ Encode \/ Decode

Spec == Init /\ [][Next]_vars

(***************************************************************************)
(* The decoder on its own: decode_msgpack at depth 0 on every input, under *)
(* every resolved decoder.                                                 *)
(***************************************************************************)
Decoders ==
    [string_type : {"string", "symbol", "keyword", "buffer"},
     bin_type : {JANET_TYPE_MUTABLE, JANET_TYPE_IMMUTABLE},
     array_type : {JANET_TYPE_MUTABLE, JANET_TYPE_IMMUTABLE},
     map_type : {JANET_TYPE_MUTABLE, JANET_TYPE_IMMUTABLE}]

\* Maps whose keys are numbers that compare equal without being the same
\* pattern, a NaN, or boxed 64-bit integers of one value, alone or in a
\* tuple, and a map that gives such a key a value and then nil.
KeyInputs ==
    { <<130, 203, 0, 0, 0, 0, 0, 0, 0, 0, 1, 203, 128, 0, 0, 0, 0, 0, 0, 0, 2>>,
      <<130, 207, 128, 0, 0, 0, 0, 0, 0, 0, 1, 207, 128, 0, 0, 0, 0, 0, 0, 0, 2>>,
      <<130, 211, 128, 0, 0, 0, 0, 0, 0, 0, 1, 211, 128, 0, 0, 0, 0, 0, 0, 0, 2>>,
      <<129, 203, 127, 248, 0, 0, 0, 0, 0, 0, 1>>,
      <<129, 202, 127, 192, 0, 0, 1>>,
      <<130, 145, 207, 128, 0, 0, 0, 0, 0, 0, 0, 1, 145, 207, 128, 0, 0, 0, 0, 0, 0, 0, 2>>,
      <<130, 207, 128, 0, 0, 0, 0, 0, 0, 0, 1, 207, 128, 0, 0, 0, 0, 0, 0, 0, 192>> }

DecoderInit ==
    /\ op = "none"
    /\ args \in [decoder : Decoders, data : DecodeInputs \cup KeyInputs]
    /\ buffer = args.data
    /\ origin = Origin("file", 0, <<>>, "none", FALSE)
    /\ ret = NoRet

DecodeWith ==
    \E beyond \in PastEnd, by_value \in BOOLEAN :
        \E r \in {decode_msgpack(args.decoder, args.data, 0, 0, beyond, by_value)} :
            /\ op = "none"
            /\ op' = "decode_msgpack"
            /\ UNCHANGED <<args, buffer, origin>>
            /\ ret' = [status |-> IF r.panic = "" THEN "ok" ELSE "panic",
                       panic |-> r.panic,
                       value |-> r.value,
                       pos |-> r.pos,
                       string_type |-> r.string_type]

\* The integer cases of decode_msgpack on the input's first tag, for a
\* build with and a build without JANET_INT_TYPES.
DecodeInteger ==
    \E int_types \in BOOLEAN :
        \E tag \in {mpack_read_tag(args.data, 0)} :
        \E r \in {decode_msgpack_integer(tag, args.decoder.string_type, int_types)} :
            /\ op = "none"
            /\ tag.error = ""
            /\ tag.type \in {"int", "uint"}
            /\ op' = "decode_msgpack_integer"
            /\ args' = [decoder |-> args.decoder, data |-> args.data, int_types |-> int_types]
            /\ UNCHANGED <<buffer, origin>>
            /\ ret' = [status |-> IF r.panic = "" THEN "ok" ELSE "panic",
                       panic |-> r.panic,
                       value |-> r.value,
                       pos |-> r.pos,
                       string_type |-> r.string_type]

\* The depths at which decode_msgpack is entered for a nested value: those
\* near the guard.
DecodeDepths == (JANET_RECURSION_GUARD - Near)..(JANET_RECURSION_GUARD + Near)

\* decode_msgpack as it is called for a value read at a depth near the guard.
DecodeNested ==
    \E beyond \in PastEnd, depth \in DecodeDepths, by_value \in BOOLEAN :
        \E r \in {decode_msgpack(args.decoder, args.data, 0, depth, beyond, by_value)} :
            /\ op = "none"
            /\ op' = "decode_msgpack_nested"
            /\ args' = [decoder |-> args.decoder, data |-> args.data, depth |-> depth,
                        beyond |-> beyond, by_value |-> by_value]
            /\ UNCHANGED <<buffer, origin>>
            /\ ret' = [status |-> IF r.panic = "" THEN "ok" ELSE "panic",
                       panic |-> r.panic,
                       value |-> r.value,
                       pos |-> r.pos,
                       string_type |-> r.string_type]

\* The tables and structs given as the decode configuration, as sequences of
\* slots in the order the loop meets them.
ConfigTables ==
    { janet_wrap_struct(<< <<janet_keywordv(N_str), janet_keywordv(N_keyword)>>,
                           <<janet_keywordv(N_map), janet_keywordv(N_struct)>> >>),
      janet_wrap_struct(<< <<janet_keywordv(N_map), janet_keywordv(N_struct)>>,
                           <<janet_keywordv(N_str), janet_keywordv(N_keyword)>> >>),
      janet_wrap_struct(<< <<janet_keywordv(N_bin), janet_symbolv(N_string)>>,
                           <<janet_wrap_nil, janet_wrap_nil>>,
                           <<janet_keywordv(N_map), janet_keywordv(N_table)>> >>),
      janet_wrap_table(<< <<janet_keywordv(N_string), janet_keywordv(N_buffer)>>,
                          <<janet_keywordv(N_bytes), janet_keywordv(N_string)>> >>),
      janet_wrap_table(<< <<janet_keywordv(N_map), janet_keywordv(N_struct)>> >>),
      janet_wrap_struct(<< <<janet_keywordv(N_array), janet_keywordv(N_tuple)>> >>),
      janet_wrap_struct(<< <<janet_keywordv(N_bin), janet_keywordv(N_table)>> >>),
      janet_wrap_struct(<< <<janet_keywordv(N_number), janet_keywordv(N_string)>> >>),
      janet_wrap_struct(<<>>) }

\* The configuration block of janet_msgpack_decode, which starts from the
\* default decoder.
ResolveConfig ==
    \E config \in ConfigTables :
        \E r \in {decode_config(default_decoder, config)} :
            /\ op = "none"
            /\ args.decoder = default_decoder
            /\ op' = "decode_config"
            /\ args' = [decoder |-> args.decoder, data |-> args.data, config |-> config]
            /\ UNCHANGED <<buffer, origin>>
            /\ ret' = [status |-> IF r.panic = "" THEN "ok" ELSE "panic",
                       panic |-> r.panic,
                       decoder |-> r.decoder]

DecoderNext == DecodeWith \/ DecodeInteger \/ DecodeNested \/ ResolveConfig

SpecDecoder == DecoderInit /\ [][DecoderNext]_vars

(***************************************************************************)
(* The encoder's functions on their own: encode_msgpack_string and         *)
(* encode_msgpack_collection_length on lengths around the boundaries of    *)
(* the length forms, and encode_msgpack on values met at depths around the *)
(* recursion guard, under every resolved encoder.                          *)
(***************************************************************************)
\* Lengths are taken within NearLen of a boundary.
NearLen == 1

\* The lengths within NearLen of one of the boundaries.
LengthsNear(boundaries) ==
    {n \in UNION {(b - NearLen)..(b + NearLen) : b \in boundaries} : n >= 0}

\* n bytes, each b.
Filled(n, b) == [i \in 1..n |-> b]

\* What the sink holds before the call.
Prefixes == {<<>>, <<170>>}

S64(i) == janet_wrap_s64(FromInt32(i))

\* An array of the 64-bit integers 1..n.
ArrayOfS64(n) == janet_wrap_array([i \in 1..n |-> S64(i)])

\* A table of capacity 2n holding the n entries i -> i + 100 in its even slots.
TableOfS64(n) ==
    janet_wrap_table([i \in 1..(2 * n) |->
        IF i % 2 = 1 THEN <<janet_wrap_nil, janet_wrap_nil>>
        ELSE <<S64(i \div 2), S64(100 + (i \div 2))>>])

\* The values handed to encode_msgpack.
\* Numbers that are not integers of the signed 32-bit range.
OtherNumbers ==
    { janet_wrap_number(<<63, 248, 0, 0, 0, 0, 0, 0>>),            \* 1.5
      janet_wrap_number(<<63, 224, 0, 0, 0, 0, 0, 0>>),            \* 0.5
      janet_wrap_number(<<65, 224, 0, 0, 0, 0, 0, 0>>),            \* 2^31
      janet_wrap_number(<<65, 240, 0, 0, 0, 0, 0, 0>>),            \* 2^32
      janet_wrap_number(<<193, 224, 0, 0, 0, 32, 0, 0>>),          \* -2^31 - 1
      janet_wrap_number(<<65, 223, 255, 255, 255, 224, 0, 0>>),    \* 2^31 - 0.5
      janet_wrap_number(<<126, 55, 228, 60, 136, 0, 117, 156>>),   \* 1e300
      janet_wrap_number(<<127, 240, 0, 0, 0, 0, 0, 0>>),           \* +inf
      janet_wrap_number(<<255, 240, 0, 0, 0, 0, 0, 0>>),           \* -inf
      janet_wrap_number(<<127, 248, 0, 0, 0, 0, 0, 0>>) }          \* nan

\* The integers of the signed 32-bit range given as numbers.
Int32Cases ==
    {0, 1, 127, 128, -1, -32, -33, -100, -128, -129, 255, 256, 65535, 65536, -32768,
     -32769, 2147483647, (0 - 2147483647) - 1}

NegativeZero == janet_wrap_number(<<128, 0, 0, 0, 0, 0, 0, 0>>)

EncoderValues ==
    EncodeValues
    \cup OtherNumbers \cup {I(k) : k \in Int32Cases} \cup {NegativeZero}
    \cup {ArrayOfS64(n) : n \in LengthsNear({0, 16})}
    \cup {TableOfS64(n) : n \in LengthsNear({0, 16})}
    \cup { janet_wrap_tuple(<<S64(1), S64(2), S64(3)>>),
           janet_wrap_struct(<< <<S64(1), S64(2)>>, <<janet_wrap_nil, janet_wrap_nil>>,
                                <<S64(3), S64(4)>> >>),
           janet_wrap_table(<< <<janet_wrap_nil, janet_wrap_nil>>,
                               <<janet_wrap_nil, janet_wrap_nil>> >>),
           janet_wrap_table(<< <<janet_wrap_string(<<97>>), I(1)>>,
                               <<janet_wrap_string(<<98>>), I(2)>> >>),
           janet_wrap_array(<<Mk("function")>>),
           janet_wrap_array(<<I(1), Mk("function")>>),
           janet_wrap_array(<<S64(1), Mk("function")>>),
           janet_wrap_array(<<S64(1), Mk("abstract")>>),
           janet_wrap_table(<< <<S64(1), Mk("function")>> >>),
           janet_wrap_array(<<S64(1), janet_wrap_array(<<S64(2)>>)>>),
           janet_wrap_array(<<S64(1), janet_wrap_array(<<janet_wrap_array(<<S64(2)>>)>>)>>),
           janet_wrap_table(<< <<S64(1), janet_wrap_array(<<S64(2)>>)>> >>),
           janet_wrap_table(<< <<janet_wrap_array(<<S64(2)>>), S64(1)>> >>) }

\* The resolved encoders, their sink aside.
Encoders ==
    [string_type : {MSGPACK_STRING_STRING, MSGPACK_BYTES_STRING},
     buffer_type : {MSGPACK_STRING_STRING, MSGPACK_BYTES_STRING}]

\* The depths at which encode_msgpack is entered: the top, and those near the guard.
Depths == {0} \cup ((JANET_RECURSION_GUARD - Near)..(JANET_RECURSION_GUARD + Near))

EncoderCalls ==
    {[fn |-> "encode_msgpack_string", buf |-> p, bytes |-> Filled(n, b), len |-> n,
      desired_type |-> c] :
        p \in Prefixes, n \in LengthsNear({0, 32, 256}), b \in {0, 97},
        c \in {MSGPACK_STRING_STRING, MSGPACK_BYTES_STRING}}
    \cup {[fn |-> "encode_msgpack_string", buf |-> <<>>, bytes |-> Filled(n, 97), len |-> n,
           desired_type |-> c] :
        n \in LengthsNear({65536}), c \in {MSGPACK_STRING_STRING, MSGPACK_BYTES_STRING}}
    \cup {[fn |-> "encode_msgpack_collection_length", buf |-> p, len |-> n,
           inline_bitmask |-> t[1], tag_start |-> t[2]] :
        p \in Prefixes, n \in LengthsNear({0, 16, 65536}),
        t \in {<<144, 220>>, <<128, 222>>}}
    \cup {[fn |-> "encode_msgpack",
           encoder |-> [buffer |-> p, string_type |-> e.string_type,
                        buffer_type |-> e.buffer_type],
           value |-> v, depth |-> d, little_endian |-> h] :
        p \in Prefixes, e \in Encoders, v \in EncoderValues, d \in Depths, h \in BOOLEAN}

EncoderInit ==
    /\ op = "none"
    /\ args \in EncoderCalls
    /\ buffer = IF args.fn = "encode_msgpack" THEN args.encoder.buffer ELSE args.buf
    /\ origin = Origin("none", 0, <<>>, "none", FALSE)
    /\ ret = NoRet

EncodeString ==
    /\ op = "none"
    /\ args.fn = "encode_msgpack_string"
    /\ \E r \in {encode_msgpack_string(args.buf, args.bytes, args.len, args.desired_type)} :
           /\ op' = "encode_msgpack_string"
           /\ buffer' = r
           /\ ret' = [status |-> "ok", panic |-> "", out |-> r]
    /\ UNCHANGED <<args, origin>>

EncodeCollectionLength ==
    /\ op = "none"
    /\ args.fn = "encode_msgpack_collection_length"
    /\ \E r \in {encode_msgpack_collection_length(args.buf, args.len, args.inline_bitmask,
                                                  args.tag_start)} :
           /\ op' = "encode_msgpack_collection_length"
           /\ buffer' = r
           /\ ret' = [status |-> "ok", panic |-> "", out |-> r]
    /\ UNCHANGED <<args, origin>>

EncodeValue ==
    /\ op = "none"
    /\ args.fn = "encode_msgpack"
    /\ \E r \in {encode_msgpack(args.encoder, args.value, args.depth, args.little_endian)} :
           /\ op' = "encode_msgpack"
           /\ buffer' = r.buffer
           /\ ret' = [status |-> IF r.panic = "" THEN "ok" ELSE "panic",
                      panic |-> r.panic,
                      out |-> r.buffer]
    /\ UNCHANGED <<args, origin>>

EncoderNext == EncodeString \/ EncodeCollectionLength \/ EncodeValue

SpecEncoder == EncoderInit /\ [][EncoderNext]_vars

(***************************************************************************)
(* Properties of the entry points and of the decoder.                      *)
(***************************************************************************)
RECURSIVE BuiltFrom(_, _)
\* Whether v and everything nested in it is of one of the variants.
BuiltFrom(v, variants) ==
    /\ v.t \in variants
    /\ v.t \in {"tuple", "array"} =>
           \A i \in 1..Len(v.items) : BuiltFrom(v.items[i], variants)
    /\ v.t \in {"table", "struct"} =>
           \A i \in 1..Len(v.items) :
               BuiltFrom(v.items[i][1], variants) /\ BuiltFrom(v.items[i][2], variants)

SupportedVariants ==
    {"nil", "boolean", "number", "string", "buffer", "symbol", "keyword",
     "tuple", "array", "table", "struct"}

ExpressibleVariants ==
    {"nil", "boolean", "number", "string", "buffer", "tuple", "array", "table", "struct"}

\* The entries of a table or struct, without the empty slots.
Entries(v) == {v.items[i] : i \in {j \in 1..Len(v.items) : v.items[j][1].t # "nil"}}

RECURSIVE DeepEq(_, _)
\* Structural equality of two values; a mapping is the set of its entries.
DeepEq(a, b) ==
    /\ a.t = b.t /\ a.b = b.b /\ a.n = b.n /\ a.s = b.s
    /\ IF a.t \in {"table", "struct"}
       THEN /\ \A e \in Entries(a) : \E f \in Entries(b) :
                   DeepEq(e[1], f[1]) /\ DeepEq(e[2], f[2])
            /\ \A f \in Entries(b) : \E e \in Entries(a) :
                   DeepEq(e[1], f[1]) /\ DeepEq(e[2], f[2])
       ELSE /\ Len(a.items) = Len(b.items)
            /\ \A i \in 1..Len(a.items) : DeepEq(a.items[i], b.items[i])

\* The last call was a msgpack/encode whose configuration and sink
\* arguments, when given, are ones the entry point takes.
WellFormedEncodeCall ==
    /\ op = "encode"
    /\ args.argc > 1 =>
           encode_config([buffer |-> <<>>, string_type |-> MSGPACK_STRING_STRING,
                          buffer_type |-> MSGPACK_BYTES_STRING], args.argv[2]).panic = ""
    /\ args.argc > 2 => args.argv[3].t \in {"nil", "buffer"}

\* C1: encoding a value built only from nil, booleans, numbers, strings,
\* buffers, symbols, keywords, tuples, arrays, tables and structs, nested
\* within the recursion guard, raises no failure and returns the very sink
\* it wrote into.
C1_EncodeReturnsSink ==
    (WellFormedEncodeCall /\ BuiltFrom(args.argv[1], SupportedVariants))
        => (ret.status = "ok" /\ ret.sink # "none" /\ ret.returned = ret.sink)

\* C2: round trip under the default configuration: encoding a value made
\* of nil, booleans, numbers, strings, buffers, sequences and mappings
\* succeeds, and decoding the bytes it returned gives back an equal value.
C2_RoundTrip ==
    /\ (op = "encode" /\ args.argc = 1 /\ BuiltFrom(args.argv[1], ExpressibleVariants))
           => ret.status = "ok"
    /\ (/\ op = "decode" /\ args.argc = 1
        /\ origin.kind = "encode" /\ origin.returned /\ origin.argc = 1
        /\ BuiltFrom(origin.argv[1], ExpressibleVariants))
           => (ret.status = "ok" /\ DeepEq(ret.value, origin.argv[1]))

RECURSIVE SkipValue(_, _), SkipValues(_, _, _)
\* The cursor after the whole value that starts at pos, by the format.
SkipValue(data, pos) ==
    LET tag == mpack_read_tag(data, pos)
    IN  CASE tag.type \in {"str", "bin"} -> tag.pos + ToInt32(tag.v)
          [] tag.type = "array" -> SkipValues(data, tag.pos, ToInt32(tag.v))
          [] tag.type = "map" -> SkipValues(data, tag.pos, 2 * ToInt32(tag.v))
          [] OTHER -> tag.pos

SkipValues(data, pos, n) ==
    IF n = 0 THEN pos ELSE SkipValues(data, SkipValue(data, pos), n - 1)

\* Where the i-th key and the i-th value of the map at the start of data begin.
KeyPos(data, i) == SkipValues(data, mpack_read_tag(data, 0).pos, 2 * (i - 1))

ValuePos(data, i) == SkipValue(data, KeyPos(data, i))

\* The bytes of the str that starts at pos.
StrBytes(data, pos) ==
    LET tag == mpack_read_tag(data, pos)
    IN  SubSeq(data, tag.pos + 1, tag.pos + ToInt32(tag.v))

\* Whether no other key of the map at the start of data has the i-th key's bytes.
OnlyKey(data, i) ==
    \A k \in 1..ToInt32(mpack_read_tag(data, 0).v) :
        k # i => SubSeq(data, KeyPos(data, k) + 1, ValuePos(data, k))
                     # SubSeq(data, KeyPos(data, i) + 1, ValuePos(data, i))

\* C3: when a wire map is decoded, under any resolved configuration, each
\* key written as a str comes back as the keyword of its bytes, and each
\* value written as a str comes back as the type configured for str.
C3_MapKeyOverride ==
    (op = "decode_msgpack" /\ ret.status = "ok" /\ mpack_read_tag(args.data, 0).type = "map")
        => \A i \in 1..ToInt32(mpack_read_tag(args.data, 0).v) :
               LET kp == KeyPos(args.data, i)
                   vp == ValuePos(args.data, i)
                   kt == mpack_read_tag(args.data, kp)
                   vt == mpack_read_tag(args.data, vp)
                   items == ret.value.items
               IN  /\ (kt.type = "str" /\ vt.type # "nil") =>
                          \E j \in 1..Len(items) :
                              items[j][1] = janet_keywordv(StrBytes(args.data, kp))
                   /\ (vt.type = "str" /\ OnlyKey(args.data, i)) =>
                          \E j \in 1..Len(items) :
                              /\ kt.type = "str" =>
                                     items[j][1] = janet_keywordv(StrBytes(args.data, kp))
                              /\ items[j][2].t = args.decoder.string_type
                              /\ items[j][2].t # "buffer" =>
                                     items[j][2].s = StrBytes(args.data, vp)

\* {"a": "b"} decoded with str configured as symbol: keyword key, symbol value.
C3_Witness ==
    /\ op = "decode_msgpack"
    /\ args.decoder.string_type = "symbol"
    /\ args.data = <<129, 161, 97, 161, 98>>
    /\ ret.status = "ok"
    /\ ret.value.items = << <<janet_keywordv(<<97>>), janet_symbolv(<<98>>)>> >>

\* C4: msgpack/decode takes a configuration table as its second argument,
\* and decoding 0x93 0x01 0x02 0x03 with the array category configured as
\* the immutable sequence returns the tuple (1 2 3).
C4_DecodeConfigOverride ==
    (/\ op = "decode" /\ args.argc = 2
     /\ args.argv[1].s = <<147, 1, 2, 3>>
     /\ args.argv[2] = janet_wrap_struct(<< <<janet_keywordv(N_array), janet_keywordv(N_tuple)>> >>))
        => (ret.status = "ok" /\ ret.value = janet_wrap_tuple(<<I(1), I(2), I(3)>>))

StringAsBytes == janet_wrap_struct(<< <<janet_keywordv(N_string), janet_symbolv(N_bytes)>> >>)

BinAsString == janet_wrap_struct(<< <<janet_keywordv(N_bin), janet_keywordv(N_string)>> >>)

\* C5: a string encoded with strings configured as bytes is encoded without
\* failure, and decoding the returned bytes with bin configured as string
\* gives a string of the same content.
C5_StringAsBytesRoundTrip ==
    /\ (op = "encode" /\ args.argc = 2 /\ args.argv[1].t = "string"
        /\ args.argv[2] = StringAsBytes)
           => ret.status = "ok"
    /\ (/\ op = "decode" /\ args.argc = 2 /\ args.argv[2] = BinAsString
        /\ origin.kind = "encode" /\ origin.returned /\ origin.argc = 2
        /\ origin.argv[1].t = "string" /\ origin.argv[2] = StringAsBytes)
           => (ret.status = "ok" /\ ret.value = janet_wrap_string(origin.argv[1].s))

(***************************************************************************)
(* The integer encoder on its own: every 64-bit value near a width         *)
(* boundary, as int64_t and as "actually unsigned".                        *)
(***************************************************************************)
Boundaries ==
    { Zero64,
      FromInt32(128), FromInt32(256), FromInt32(32768), FromInt32(65536),
      <<0, 0, 0, 0, 128, 0, 0, 0>>,          \* 2^31
      <<0, 0, 0, 1, 0, 0, 0, 0>>,            \* 2^32
      <<128, 0, 0, 0, 0, 0, 0, 0>>,          \* 2^63, INT64_MIN
      FromInt32(-32), FromInt32(-128), FromInt32(-32768),
      W_INT32_MIN }

IntInputs ==
    { Add64(b, FromInt32(d)) : b \in Boundaries, d \in (0 - Near)..Near }
        \cup {FromInt32(100), FromInt32(-100)}

IntInit ==
    /\ op = "none"
    /\ args = [signed_value |-> Zero64, actually_unsigned |-> FALSE]
    /\ buffer = <<>>
    /\ origin = Origin("none", 0, <<>>, "none", FALSE)
    /\ ret = [status |-> "none", out |-> <<>>]

\* One call of encode_msgpack_int on an empty buffer.
EncodeInt ==
    \E v \in IntInputs, u \in BOOLEAN :
        /\ op' = "encode_msgpack_int"
        /\ args' = [signed_value |-> v, actually_unsigned |-> u]
        /\ buffer' = encode_msgpack_int(<<>>, v, u)
        /\ origin' = Origin("encode_msgpack_int", 0, <<>>, "none", FALSE)
        /\ ret' = [status |-> "ok", out |-> buffer']

IntNext == EncodeInt

SpecInt == IntInit /\ [][IntNext]_vars

(***************************************************************************)
(* The MessagePack integer forms, read off the format definition: what a   *)
(* sequence of bytes that is one integer stands for, and the size of the   *)
(* narrowest form that holds a value.                                      *)
(***************************************************************************)
\* The 64-bit value the integer form `bytes` stands for (as a word, signed
\* forms sign-extended, unsigned forms zero-extended); <<>> if it is no
\* integer form.
WireIntValue(bytes) ==
    IF bytes = <<>> THEN <<>>
    ELSE LET t == bytes[1]
             p == Tail(bytes)
         IN  IF t <= 127 /\ p = <<>> THEN Widen(<<t>>, 0)
             ELSE IF t >= 224 /\ p = <<>> THEN Widen(<<t>>, 255)
             ELSE IF t \in 204..207 /\ Len(p) = 2 ^ (t - 204) THEN Widen(p, 0)
             ELSE IF t \in 208..211 /\ Len(p) = 2 ^ (t - 208)
                  THEN Widen(p, IF p[1] >= 128 THEN 255 ELSE 0)
             ELSE <<>>

\* Whether the integer form `bytes` is one of the unsigned ones.
WireIsUnsignedForm(bytes) ==
    bytes # <<>> /\ (bytes[1] <= 127 \/ bytes[1] \in 204..207)

\* Size in bytes of the narrowest integer form holding the value of w, read
\* as unsigned when `unsigned` and as signed otherwise.
NarrowestIntSize(w, unsigned) ==
    IF unsigned \/ w[1] < 128
    THEN IF LeadingAll(w, 7, 0) /\ w[8] <= 127 THEN 1
         ELSE IF LeadingAll(w, 7, 0) THEN 2
         ELSE IF LeadingAll(w, 6, 0) THEN 3
         ELSE IF LeadingAll(w, 4, 0) THEN 5
         ELSE 9
    ELSE IF LeadingAll(w, 7, 255) /\ w[8] >= 224 THEN 1
         ELSE IF LeadingAll(w, 7, 255) /\ w[8] >= 128 THEN 2
         ELSE IF LeadingAll(w, 6, 255) /\ w[7] >= 128 THEN 3
         ELSE IF LeadingAll(w, 4, 255) /\ w[5] >= 128 THEN 5
         ELSE 9

\* The last n bytes of w: w in n bytes, most significant first.
BigEndian(w, n) == SubSeq(w, 9 - n, 8)

\* The form the format prescribes for a non-negative value.
ExpectedNonNegative(w) ==
    IF LeadingAll(w, 7, 0) /\ w[8] <= 127 THEN <<w[8]>>
    ELSE IF LeadingAll(w, 7, 0) THEN <<204>> \o BigEndian(w, 1)
    ELSE IF LeadingAll(w, 6, 0) THEN <<205>> \o BigEndian(w, 2)
    ELSE IF LeadingAll(w, 4, 0) THEN <<206>> \o BigEndian(w, 4)
    ELSE <<207>> \o BigEndian(w, 8)

\* The form the format prescribes for a negative value.
ExpectedNegative(w) ==
    IF LeadingAll(w, 7, 255) /\ w[8] >= 224 THEN <<224 + (w[8] - 224)>>
    ELSE IF LeadingAll(w, 7, 255) /\ w[8] >= 128 THEN <<208>> \o BigEndian(w, 1)
    ELSE IF LeadingAll(w, 6, 255) /\ w[7] >= 128 THEN <<209>> \o BigEndian(w, 2)
    ELSE IF LeadingAll(w, 4, 255) /\ w[5] >= 128 THEN <<210>> \o BigEndian(w, 4)
    ELSE <<211>> \o BigEndian(w, 8)

IntEncoded == op = "encode_msgpack_int"

(***************************************************************************)
(* Claims about the integer encoder (checked under SpecInt).               *)
(***************************************************************************)

\* C6: the integer encoder never emits more bytes than the narrowest
\* MessagePack integer form holding the value takes (1, 2, 3, 5 or 9).
C6_MinimalWidth ==
    IntEncoded =>
        Len(ret.out) <= NarrowestIntSize(args.signed_value, args.actually_unsigned)

C6_Witness ==
    /\ IntEncoded
    /\ args.signed_value = FromInt32(-128)
    /\ ~args.actually_unsigned
    /\ Len(ret.out) = 2

\* C7 as stated: encoding -100 emits exactly one byte, a negative fixint.
C7_OneByteNegativeFixint ==
    (IntEncoded /\ args.signed_value = FromInt32(-100) /\ ~args.actually_unsigned)
        => (Len(ret.out) = 1 /\ ret.out[1] >= 224)

\* C7 amended: encoding -100 emits the two bytes 0xD0 0x9C (the int8 form);
\* the one-byte negative fixint covers -32..-1 only.
C7_Int8Form ==
    (IntEncoded /\ args.signed_value = FromInt32(-100) /\ ~args.actually_unsigned)
        => ret.out = <<208, 156>>

C7_Witness ==
    /\ IntEncoded
    /\ args.signed_value = FromInt32(-100)
    /\ ~args.actually_unsigned
    /\ Len(ret.out) = 2

\* C8: every value encoded as "actually unsigned", 2^63..2^64-1 included, is
\* emitted as an unsigned form that stands for exactly that value.
C8_UnsignedExact ==
    (IntEncoded /\ args.actually_unsigned)
        => (WireIsUnsignedForm(ret.out) /\ WireIntValue(ret.out) = args.signed_value)

\* C9: a non-negative signed value v is emitted as the single byte v when
\* v <= 127, else as tag 0xCC..0xCF of the narrowest unsigned width holding
\* v followed by v in that many bytes, most significant first.
C9_NonNegativeForm ==
    (IntEncoded /\ args.signed_value[1] < 128)
        => ret.out = ExpectedNonNegative(args.signed_value)

C9_Witness ==
    /\ IntEncoded
    /\ args.signed_value = FromInt32(256)
    /\ ret.out = <<205, 1, 0>>

\* C10: a negative value v is emitted as the single byte 0xE0 | (v + 32) when
\* v >= -32, else as tag 0xD0..0xD3 of the narrowest signed width holding v
\* followed by v's two's complement in that many bytes, most significant
\* first.
C10_NegativeForm ==
    (IntEncoded /\ ~args.actually_unsigned /\ args.signed_value[1] >= 128)
        => ret.out = ExpectedNegative(args.signed_value)

C10_Witness ==
    /\ IntEncoded
    /\ ~args.actually_unsigned
    /\ args.signed_value = FromInt32(-33)
    /\ ret.out = <<208, 223>>


(***************************************************************************)
(* Claims about the encoder's functions (checked under SpecEncoder).       *)
(***************************************************************************)
\* The header the format prescribes for a str of n bytes.
ExpectedStrHeader(n) ==
    IF n <= 31 THEN <<160 + n>>
    ELSE IF n <= 255 THEN <<217>> \o BigEndian(FromInt32(n), 1)
    ELSE IF n <= 65535 THEN <<218>> \o BigEndian(FromInt32(n), 2)
    ELSE <<219>> \o BigEndian(FromInt32(n), 4)

\* The header the format prescribes for a bin of n bytes.
ExpectedBinHeader(n) ==
    IF n <= 255 THEN <<196>> \o BigEndian(FromInt32(n), 1)
    ELSE IF n <= 65535 THEN <<197>> \o BigEndian(FromInt32(n), 2)
    ELSE <<198>> \o BigEndian(FromInt32(n), 4)

\* C11: a payload of n bytes written as str gets the tag 0xA0|n when
\* n <= 31 and else 0xD9, 0xDA or 0xDB with n in 1, 2 or 4 bytes, the
\* narrowest that holds it; written as bin it gets 0xC4, 0xC5 or 0xC6 with n
\* in 1, 2 or 4 bytes and never the inline form; the n payload bytes follow
\* unchanged.
C11_StringForm ==
    op = "encode_msgpack_string" =>
        ret.out = args.buf
                  \o (IF args.desired_type = MSGPACK_STRING_STRING
                      THEN ExpectedStrHeader(args.len) ELSE ExpectedBinHeader(args.len))
                  \o args.bytes

\* A bin of 31 bytes (no inline form) into a sink that held a byte.
C11_Witness ==
    /\ op = "encode_msgpack_string"
    /\ args.desired_type = MSGPACK_BYTES_STRING
    /\ args.len = 31
    /\ args.buf = <<170>>
    /\ SubSeq(ret.out, 1, 3) = <<170, 196, 31>>
    /\ Len(ret.out) = 34

(***************************************************************************)
(* Claims about msgpack/encode (checked under Spec).                       *)
(***************************************************************************)
\* The wire category a category name stands for: string is str, bytes is bin.
CategoryNamed(name) == IF name.s = N_string THEN "str" ELSE "bin"

\* The wire category of a string-like value under the arguments of an
\* encode call, as the configuration rules give it.
WireCategory(value, argc, argv) ==
    LET default == IF value.t = "string" THEN "str" ELSE "bin"
        named == IF argc > 1 /\ argv[2].t \in {"table", "struct"}
                 THEN {e \in Entries(argv[2]) :
                          e[1].s = (IF value.t = "string" THEN N_string ELSE N_buffer)}
                 ELSE {}
    IN  IF value.t \in {"symbol", "keyword"} THEN "str"
        ELSE IF argc = 1 THEN default
        ELSE IF argv[2].t \in {"symbol", "keyword"} THEN CategoryNamed(argv[2])
        ELSE IF named = {} THEN default
        ELSE CategoryNamed((CHOOSE e \in named : TRUE)[2])

\* The bytes the last encode call appended to its sink.
Appended == SubSeq(ret.out, Len(ret.before) + 1, Len(ret.out))

\* C12: a string-like value is written under the category its
\* configuration resolves to: strings as str and buffers as bin with no
\* config, both under the one category a symbol config names, each under
\* the category a table config names for its type and its default when the
\* table does not name it; symbols and keywords always as str.
C12_CategoryResolution ==
    (/\ WellFormedEncodeCall
     /\ args.argv[1].t \in {"string", "buffer", "symbol", "keyword"})
        => Appended = (IF WireCategory(args.argv[1], args.argc, args.argv) = "str"
                       THEN ExpectedStrHeader(Len(args.argv[1].s))
                       ELSE ExpectedBinHeader(Len(args.argv[1].s)))
                      \o args.argv[1].s

\* A buffer written as bin under a table config that names only strings.
C12_Witness ==
    /\ op = "encode"
    /\ args.argc = 2
    /\ args.argv[1] = janet_wrap_buffer(<<104, 105>>)
    /\ args.argv[2] = StringAsBytes
    /\ ret.out = <<196, 2, 104, 105>>

(***************************************************************************)
(* Claims about containers (checked under SpecEncoder).                    *)
(***************************************************************************)
\* The header the format prescribes for a container of n entries whose
\* inline tag is `inline` and whose 16-bit tag is `tag16`.
ExpectedCollectionHeader(n, inline, tag16) ==
    IF n <= 15 THEN <<inline + n>>
    ELSE IF n <= 65535 THEN <<tag16>> \o BigEndian(FromInt32(n), 2)
    ELSE <<tag16 + 1>> \o BigEndian(FromInt32(n), 4)

RECURSIVE EachEncoded(_, _, _, _)
\* The encodings of values[i..], each encoded on its own at `depth`, one
\* after the other.
EachEncoded(encoder, values, i, depth) ==
    IF i > Len(values) THEN <<>>
    ELSE encode_msgpack([encoder EXCEPT !.buffer = <<>>], values[i], depth,
                        args.little_endian).buffer
         \o EachEncoded(encoder, values, i + 1, depth)

\* C13: the header of a container of n entries is 0x90|n (array) or
\* 0x80|n (map) when n <= 15, else 0xDC or 0xDE with n in 2 bytes when
\* n <= 65535, else 0xDD or 0xDF with n in 4 bytes; and the encoding of an
\* array is its header followed by the encodings of its elements in order
\* (0x93 0x01 0x02 0x03 for [1, 2, 3]).
C13_ContainerForm ==
    /\ op = "encode_msgpack_collection_length" =>
           ret.out = args.buf
                     \o ExpectedCollectionHeader(args.len, args.inline_bitmask, args.tag_start)
    /\ (/\ op = "encode_msgpack"
        /\ args.depth = 0
        /\ args.value.t \in {"tuple", "array"}
        /\ BuiltFrom(args.value, SupportedVariants \cup {"s64", "u64"}))
           => ret.out = args.encoder.buffer
                        \o ExpectedCollectionHeader(Len(args.value.items), 144, 220)
                        \o EachEncoded(args.encoder, args.value.items, 1, 1)

RECURSIVE EachPairEncoded(_, _, _, _)
\* The encodings of the key and the value of every slot of kvs[i..] whose
\* key is not nil, each encoded on its own at `depth`, one after the other.
EachPairEncoded(encoder, kvs, i, depth) ==
    IF i > Len(kvs) THEN <<>>
    ELSE (IF kvs[i][1].t = "nil" THEN <<>>
          ELSE encode_msgpack([encoder EXCEPT !.buffer = <<>>], kvs[i][1], depth,
                              args.little_endian).buffer
               \o encode_msgpack([encoder EXCEPT !.buffer = <<>>], kvs[i][2], depth,
                                 args.little_endian).buffer)
         \o EachPairEncoded(encoder, kvs, i + 1, depth)

\* C14: a mapping with N entries, whatever the capacity of its storage,
\* is written as the header for N followed by exactly N pairs: the key and
\* the value of every slot whose key is not nil, once each, and nothing for
\* a slot whose key is nil.
C14_MapPairs ==
    (/\ op = "encode_msgpack"
     /\ args.depth = 0
     /\ args.value.t \in {"table", "struct"}
     /\ BuiltFrom(args.value, SupportedVariants \cup {"s64", "u64"}))
        => ret.out = args.encoder.buffer
                     \o ExpectedCollectionHeader(Cardinality(Entries(args.value)), 128, 222)
                     \o EachPairEncoded(args.encoder, args.value.items, 1, 1)

RECURSIVE Height(_)
\* How many levels below itself a value has values: 0 for a value that
\* holds none, one more than its highest element, key or value otherwise.
Height(v) ==
    LET inner == IF v.t \in {"tuple", "array"}
                 THEN {Height(v.items[i]) : i \in 1..Len(v.items)}
                 ELSE IF v.t \in {"table", "struct"}
                 THEN UNION {{Height(e[1]), Height(e[2])} : e \in Entries(v)}
                 ELSE {}
    IN  IF inner = {} THEN 0
        ELSE 1 + (CHOOSE h \in inner : \A g \in inner : g <= h)

\* The header the format prescribes for a container value.
ExpectedHeaderOf(v) ==
    IF v.t \in {"tuple", "array"}
    THEN ExpectedCollectionHeader(Len(v.items), 144, 220)
    ELSE ExpectedCollectionHeader(Cardinality(Entries(v)), 128, 222)

\* Whether v is an array or tuple whose elements before the i-th are all
\* 64-bit integers and whose i-th element is a container that holds a value.
DeepAt(v, i) ==
    /\ v.t \in {"tuple", "array"}
    /\ i \in 1..Len(v.items)
    /\ \A k \in 1..(i - 1) : v.items[k].t \in {"s64", "u64"}
    /\ v.items[i].t \in {"tuple", "array", "table", "struct"}
    /\ Height(v.items[i]) > 0

\* C15: a value met at a depth greater than the guard constant aborts the
\* encode with the recursion failure before any of its bytes is appended,
\* and the bytes appended for its ancestors and its earlier siblings stay in
\* the sink; the failure is raised only when some value lies deeper than
\* the guard.
C15_EncoderGuard ==
    op = "encode_msgpack" =>
        /\ args.depth > JANET_RECURSION_GUARD =>
               (ret.panic = "recursed too deeply" /\ ret.out = args.encoder.buffer)
        /\ (args.depth = JANET_RECURSION_GUARD /\ Height(args.value) > 0) =>
               /\ ret.panic = "recursed too deeply"
               /\ ret.out = args.encoder.buffer \o ExpectedHeaderOf(args.value)
        /\ \A i \in 1..Len(args.value.items) :
               (args.depth = JANET_RECURSION_GUARD - 1 /\ DeepAt(args.value, i)) =>
                   /\ ret.panic = "recursed too deeply"
                   /\ ret.out = args.encoder.buffer
                                \o ExpectedHeaderOf(args.value)
                                \o EachEncoded(args.encoder, SubSeq(args.value.items, 1, i - 1),
                                               1, JANET_RECURSION_GUARD)
                                \o ExpectedHeaderOf(args.value.items[i])
        /\ ret.panic = "recursed too deeply" =>
               args.depth + Height(args.value) > JANET_RECURSION_GUARD

\* [1, [2]] met one level above the guard: its header, its first element
\* and the header of the second are in the sink when the encode aborts.
C15_Witness ==
    /\ op = "encode_msgpack"
    /\ args.depth = JANET_RECURSION_GUARD - 1
    /\ args.value = janet_wrap_array(<<S64(1), janet_wrap_array(<<S64(2)>>)>>)
    /\ args.encoder.buffer = <<170>>
    /\ ret.panic = "recursed too deeply"
    /\ ret.out = <<170, 146, 1, 145>>

\* The variants the encoder has a case for that writes bytes.
Representable == SupportedVariants \cup {"s64", "u64"}

RECURSIVE FlatPairs(_, _)
\* The keys and values of the slots kvs[i..] whose key is not nil, in order.
FlatPairs(kvs, i) ==
    IF i > Len(kvs) THEN <<>>
    ELSE (IF kvs[i][1].t = "nil" THEN <<>> ELSE <<kvs[i][1], kvs[i][2]>>)
         \o FlatPairs(kvs, i + 1)

RECURSIVE FirstUnsupported(_), FirstUnsupportedIn(_, _)
\* <<u>> for the first value without a representation that a depth-first
\* walk of v meets, <<>> if there is none.
FirstUnsupported(v) ==
    IF v.t \notin Representable THEN <<v>>
    ELSE IF v.t \in {"tuple", "array"} THEN FirstUnsupportedIn(v.items, 1)
    ELSE IF v.t \in {"table", "struct"} THEN FirstUnsupportedIn(FlatPairs(v.items, 1), 1)
    ELSE <<>>

FirstUnsupportedIn(values, i) ==
    IF i > Len(values) THEN <<>>
    ELSE IF FirstUnsupported(values[i]) # <<>> THEN FirstUnsupported(values[i])
    ELSE FirstUnsupportedIn(values, i + 1)

\* C16: encoding a value that has no MessagePack representation, at top
\* level or nested, aborts with the type-not-supported failure that names
\* that value's type, and appends no byte for that value.
C16_UnsupportedType ==
    (op = "encode_msgpack" /\ args.depth = 0 /\ FirstUnsupported(args.value) # <<>>)
        => /\ ret.panic = "Unknown type: " \o janet_type(FirstUnsupported(args.value)[1])
           /\ args.value.t \notin Representable => ret.out = args.encoder.buffer

(***************************************************************************)
(* Claims about msgpack/decode (checked under Spec).                       *)
(***************************************************************************)
\* C17: a decode call that succeeds read one whole value from position 0:
\* the cursor is just past that value's last byte, and the bytes after it
\* were not read, so the value is the one the call returns when nothing
\* follows the value.
C17_OneValue ==
    (op = "decode" /\ ret.status = "ok")
        => /\ ret.pos = SkipValue(args.argv[1].s, 0)
           /\ \E by_value \in BOOLEAN :
                  ret.value = janet_msgpack_decode(
                                  args.argc,
                                  <<janet_wrap_buffer(SubSeq(args.argv[1].s, 1, ret.pos))>>,
                                  SubSeq(args.argv[1].s, 1, ret.pos), <<>>, by_value).value

RECURSIVE FormatValue(_, _, _), FormatItems(_, _, _), FormatPairs(_, _, _, _)
\* The host value the format and the default configuration give the value
\* that starts at pos: str is a string (a keyword when it is a map key), bin
\* a buffer, array an array, map a table.
FormatValue(data, pos, is_key) ==
    LET tag == mpack_read_tag(data, pos)
        payload == SubSeq(data, tag.pos + 1, tag.pos + ToInt32(tag.v))
    IN  CASE tag.type = "nil" -> janet_wrap_nil
          [] tag.type = "bool" -> janet_wrap_boolean(tag.v # Zero64)
          [] tag.type = "uint" ->
                IF ULe(tag.v, W_INT32_MAX) THEN janet_wrap_integer(ToInt32(tag.v))
                ELSE janet_wrap_u64(tag.v)
          [] tag.type = "int" ->
                IF InInt32(tag.v) THEN janet_wrap_integer(ToInt32(tag.v))
                ELSE janet_wrap_s64(tag.v)
          [] tag.type = "float" -> janet_wrap_number(FloatToDouble(tag.v))
          [] tag.type = "double" -> janet_wrap_number(tag.v)
          [] tag.type = "str" ->
                IF is_key THEN janet_keywordv(payload) ELSE janet_wrap_string(payload)
          [] tag.type = "bin" -> janet_wrap_buffer(payload)
          [] tag.type = "array" ->
                janet_wrap_array(FormatItems(data, tag.pos, ToInt32(tag.v)))
          [] tag.type = "map" ->
                janet_wrap_table(FormatPairs(data, tag.pos, ToInt32(tag.v), <<>>))
          [] OTHER -> janet_wrap_nil

FormatItems(data, pos, n) ==
    IF n = 0 THEN <<>>
    ELSE <<FormatValue(data, pos, FALSE)>> \o FormatItems(data, SkipValue(data, pos), n - 1)

FormatPairs(data, pos, n, entries) ==
    IF n = 0 THEN entries
    ELSE FormatPairs(data, SkipValue(data, SkipValue(data, pos)), n - 1,
                     janet_table_put(entries, FormatValue(data, pos, TRUE),
                                     FormatValue(data, SkipValue(data, pos), FALSE), TRUE))

\* C18: with no configuration, an input that decodes gives the value the
\* format defines for it: nil, a boolean, a number, a string for a str, a
\* buffer of the payload for a bin, an array for an array, a table for a map.
C18_DefaultDecode ==
    (op = "decode" /\ args.argc = 1 /\ ret.status = "ok")
        => ret.value = FormatValue(args.argv[1].s, 0, FALSE)

(***************************************************************************)
(* Claims about decode_msgpack (checked under SpecDecoder).                *)
(***************************************************************************)
\* C19: under a resolved decoder, a wire map decodes to a table exactly
\* when the map category is configured mutable and to a struct exactly when
\* it is configured immutable, whatever the array category is.
C19_MapMutability ==
    (op = "decode_msgpack" /\ ret.status = "ok" /\ mpack_read_tag(args.data, 0).type = "map")
        => ret.value.t = (IF args.decoder.map_type = JANET_TYPE_MUTABLE
                          THEN "table" ELSE "struct")

\* C20: a wire int or uint whose value is in the signed 32-bit range
\* decodes to the host's number of that value; an int outside it decodes to
\* the signed 64-bit integer and a uint above 2^31-1 to the unsigned 64-bit
\* integer of exactly the wire value; in a build without the 64-bit integer
\* types such a value fails the decode as too large.
C20_IntegerDecode ==
    (/\ op \in {"decode_msgpack", "decode_msgpack_integer"}
     /\ WireIntValue(args.data) # <<>>)
        => LET w == WireIntValue(args.data)
               is_uint == WireIsUnsignedForm(args.data)
               int_types == IF op = "decode_msgpack" THEN JANET_INT_TYPES ELSE args.int_types
               in_range == IF is_uint THEN ULe(w, W_INT32_MAX) ELSE InInt32(w)
           IN  IF in_range
               THEN /\ ret.status = "ok"
                    /\ ret.value = janet_wrap_number(DoubleOfInt32(ToInt32(w)))
               ELSE IF int_types
               THEN /\ ret.status = "ok"
                    /\ ret.value = (IF is_uint THEN janet_wrap_u64(w) ELSE janet_wrap_s64(w))
               ELSE /\ ret.status = "panic"
                    /\ ret.panic = "64-bit numbers are too large"

\* The uint 2^32 decoded in a build with the 64-bit integer types.
C20_Witness ==
    /\ op = "decode_msgpack_integer"
    /\ args.int_types
    /\ args.data = <<207, 0, 0, 0, 1, 0, 0, 0, 0>>
    /\ ret.status = "ok"
    /\ ret.value = janet_wrap_u64(<<0, 0, 0, 1, 0, 0, 0, 0>>)


----------------------------------------------------------------------------
\* Claims C21 to C30.

\* The bytes a tag occupies by the format: the type byte and the length or
\* number field that follows it.
HeaderSize(t) ==
    CASE t \in 196..198 -> 1 + 2 ^ (t - 196)
      [] t \in 199..201 -> 2 + 2 ^ (t - 199)
      [] t = 202 -> 5
      [] t = 203 -> 9
      [] t \in 204..207 -> 1 + 2 ^ (t - 204)
      [] t \in 208..211 -> 1 + 2 ^ (t - 208)
      [] t \in 212..216 -> 2
      [] t \in 217..219 -> 1 + 2 ^ (t - 217)
      [] t \in {220, 222} -> 3
      [] t \in {221, 223} -> 5
      [] OTHER -> 1

RECURSIVE CutShort(_, _), CutShortIn(_, _, _)
\* Whether, reading the value that starts at pos by the format, the input
\* ends before bytes that a tag declares, or a str, bin, array or map carries
\* a length above 2^31 - 1.
CutShort(data, pos) ==
    IF pos >= Len(data) THEN TRUE
    ELSE IF pos + HeaderSize(data[pos + 1]) > Len(data) THEN TRUE
    ELSE LET tag == mpack_read_tag(data, pos)
         IN  CASE tag.type \in {"str", "bin"} ->
                     \/ ~ULe(tag.v, W_INT32_MAX)
                     \/ tag.pos + ToInt32(tag.v) > Len(data)
               [] tag.type = "array" ->
                     \/ ~ULe(tag.v, W_INT32_MAX)
                     \/ CutShortIn(data, tag.pos, ToInt32(tag.v))
               [] tag.type = "map" ->
                     \/ ~ULe(tag.v, W_INT32_MAX)
                     \/ CutShortIn(data, tag.pos, 2 * ToInt32(tag.v))
               [] OTHER -> FALSE

CutShortIn(data, pos, n) ==
    IF n = 0 THEN FALSE
    ELSE IF CutShort(data, pos) THEN TRUE
    ELSE CutShortIn(data, SkipValue(data, pos), n - 1)

\* C21: under any resolved configuration, a decode of an input that ends
\* before the bytes a tag declares, or in which a str, bin, array or map
\* length is above 2^31 - 1, fails: no value is returned, not even the part
\* of a container read so far.
C21_MalformedFails ==
    (op = "decode_msgpack" /\ CutShort(args.data, 0))
        => (ret.status = "panic" /\ ret.panic # "" /\ ret.value = janet_wrap_nil)

\* An array of three with one element present, a str of two with one byte
\* present, and an array whose length is 2^31 have been decoded.
C21_Witness ==
    /\ op = "decode_msgpack"
    /\ args.data \in {<<147, 1>>, <<162, 104>>, <<221, 128, 0, 0, 0>>}
    /\ CutShort(args.data, 0)
    /\ ret.status = "panic"

RECURSIVE WireHeight(_, _), WireHeightIn(_, _, _)
\* How many levels of array elements, map keys and map values lie below the
\* value that starts at pos, by the format.
WireHeight(data, pos) ==
    LET tag == mpack_read_tag(data, pos)
    IN  CASE tag.type = "array" -> WireHeightIn(data, tag.pos, ToInt32(tag.v))
          [] tag.type = "map" -> WireHeightIn(data, tag.pos, 2 * ToInt32(tag.v))
          [] OTHER -> 0

\* One more than the greatest height among the n values that start at pos,
\* and 0 when there is none.
WireHeightIn(data, pos, n) ==
    IF n = 0 THEN 0
    ELSE LET here == 1 + WireHeight(data, pos)
             rest == WireHeightIn(data, SkipValue(data, pos), n - 1)
         IN  IF here > rest THEN here ELSE rest

\* C22: the decoder counts nesting as the encoder does and refuses at the
\* same depths: a stream that decodes at the top, read instead at depth d,
\* fails with the recursion failure exactly when one of its values lies at a
\* depth the encoder's guard refuses, and otherwise decodes to the same
\* value; so a value that the encoder accepts at depth d never trips the
\* decoder's guard, and deeper nesting always does.
C22_SameGuard ==
    op = "decode_msgpack_nested" =>
        LET top == decode_msgpack(args.decoder, args.data, 0, 0, args.beyond, args.by_value)
        IN  top.panic = "" =>
                LET deepest == args.depth + WireHeight(args.data, 0)
                IN  IF recursed_too_deeply(deepest)
                    THEN ret.panic = "mspgack decoding recursed too deeply"
                    ELSE /\ ret.status = "ok"
                         /\ ret.value = top.value
                         /\ ret.pos = top.pos

\* A map whose value is a map has been read one level above the guard's
\* depth and refused: its inner key lies two levels deeper.
C22_Witness ==
    /\ op = "decode_msgpack_nested"
    /\ args.depth = JANET_RECURSION_GUARD - 1
    /\ args.data = <<129, 161, 97, 129, 161, 98, 161, 99>>
    /\ WireHeight(args.data, 0) = 2
    /\ ret.panic = "mspgack decoding recursed too deeply"

\* Whether x is a symbol or keyword whose name is one of `names`.
Names(x, names) == janet_type(x) \in {"symbol", "keyword"} /\ x.s \in names

\* The configurations msgpack/encode is to reject: a category name other
\* than string and bytes, a host-type key other than string and buffer, and
\* a value that is no symbol, keyword, table or struct.  nil is left to C29.
RejectedConfig(config) ==
    CASE janet_type(config) \in {"symbol", "keyword"} ->
            ~Names(config, {N_string, N_bytes})
      [] janet_type(config) \in {"table", "struct"} ->
            \E i \in 1..Len(config.items) :
                /\ ~janet_checktype(config.items[i][1], "nil")
                /\ \/ ~Names(config.items[i][1], {N_string, N_buffer})
                   \/ ~Names(config.items[i][2], {N_string, N_bytes})
      [] janet_type(config) = "nil" -> FALSE
      [] OTHER -> TRUE

\* The failures raised while the configuration is read.
ConfigErrors ==
    { "Expected a keyword or symbol",
      "Expected a msgpack string type ('string or 'bytes)",
      "Expected a msgpack string type",
      "Expected a Janet type name",
      "Expected either 'string or 'buffer",
      "Expected either a keyword, symbol, table or struct" }

\* C23: msgpack/encode given a rejected configuration fails with a
\* configuration error, returns nothing, and leaves the caller's sink
\* holding exactly the bytes it held before the call.
C23_RejectedConfig ==
    (/\ op = "encode"
     /\ args.argc >= 2
     /\ RejectedConfig(args.argv[2])
     /\ args.argc = 3 => janet_type(args.argv[3]) \in {"buffer", "nil"})
        => /\ ret.status = "panic"
           /\ ret.panic \in ConfigErrors
           /\ ret.returned = "none"
           /\ args.argc = 3 /\ args.argv[3] = TheBuffer =>
                  (ret.sink = "arg" /\ ret.out = ret.before /\ buffer = ret.before)

\* An encode with a rejected configuration was given a sink that already
\* held bytes.
C23_Witness ==
    /\ op = "encode"
    /\ args.argc = 3
    /\ args.argv[3] = TheBuffer
    /\ RejectedConfig(args.argv[2])
    /\ ret.before # <<>>
    /\ buffer = ret.before
    /\ ret.panic \in ConfigErrors

\* Whether the sequence p begins the sequence s.
IsPrefix(p, s) == Len(p) <= Len(s) /\ SubSeq(s, 1, Len(p)) = p

\* C24: msgpack/encode only appends.  Given a sink that already holds
\* bytes, whether the call returns or fails, what the sink held before is an
\* unchanged prefix of what it holds after; and when the call returns, the
\* bytes after that prefix are those the same call writes into a new sink.
C24_AppendOnly ==
    (op = "encode" /\ ret.sink = "arg")
        => /\ buffer = ret.out
           /\ IsPrefix(ret.before, ret.out)
           /\ ret.status = "ok" =>
                  LET fresh == janet_msgpack_encode(2, SubSeq(args.argv, 1, 2), <<>>,
                                                    args.little_endian)
                  IN  /\ fresh.panic = ""
                      /\ SubSeq(ret.out, Len(ret.before) + 1, Len(ret.out)) = fresh.buffer

\* An encode that returned was given a sink that already held bytes, and
\* wrote after them.
C24_Witness ==
    /\ op = "encode"
    /\ ret.sink = "arg"
    /\ ret.before # <<>>
    /\ Len(ret.out) > Len(ret.before)
    /\ ret.status = "ok"

\* The bytes an encode_msgpack call added to its sink.
Written == SubSeq(ret.out, Len(args.encoder.buffer) + 1, Len(ret.out))

\* Whether a byte is the tag of a MessagePack integer form.
IsIntegerTag(t) == t <= 127 \/ t >= 224 \/ t \in 204..211

\* C25: a number is written with an integer tag exactly when it is integral
\* and within the signed 32-bit range, and then as that integer; every
\* other number is written as 0xCB followed by the eight bytes of its
\* double pattern, most significant first; no value is written with 0xCA.
\* This is the statement for every host: where ensure_bigendian returns the
\* word as it is, janet_buffer_push_u64 writes the pattern least significant
\* byte first, and the statement fails.
C25_NumberForm ==
    (op = "encode_msgpack" /\ args.depth <= JANET_RECURSION_GUARD)
        => /\ Written # <<>> => Written[1] # 202
           /\ args.value.t = "number" =>
                  \/ \E k \in Int32Cases :
                         /\ args.value = I(k)
                         /\ IsIntegerTag(Written[1])
                         /\ WireIntValue(Written) = FromInt32(k)
                  \/ /\ args.value = NegativeZero
                     /\ Written = <<0>>
                  \/ /\ args.value \in OtherNumbers
                     /\ Written = <<203>> \o args.value.n

\* What C25 says holds on the hosts where ensure_bigendian reverses the word.
C25_ReversingHost ==
    (op = "encode_msgpack" /\ args.little_endian) => C25_NumberForm

\* On such a host the number 2^31 - 0.5, inside the 32-bit range but not
\* integral, has been written as a double, most significant byte first.
C25_ReversingHostWritten ==
    /\ op = "encode_msgpack"
    /\ args.little_endian
    /\ args.value = janet_wrap_number(<<65, 223, 255, 255, 255, 224, 0, 0>>)
    /\ Written = <<203, 65, 223, 255, 255, 255, 224, 0, 0>>

\* On a host where the word is returned as it is, the number 1.5 has been
\* written as 0xCB followed by its pattern least significant byte first.
C25_HostOrderWritten ==
    /\ op = "encode_msgpack"
    /\ ~args.little_endian
    /\ args.value = janet_wrap_number(<<63, 248, 0, 0, 0, 0, 0, 0>>)
    /\ Written = <<203, 0, 0, 0, 0, 0, 0, 248, 63>>

\* C26: the keyword override reaches only a str that is itself a map key: a
\* str that is the first element of an array used as a map key comes back
\* as the type configured for str; and when the decode of a map returns, the
\* decoder's str resolution is what it was when that decode began.
C26_KeyOverrideScope ==
    (op = "decode_msgpack" /\ ret.status = "ok" /\ mpack_read_tag(args.data, 0).type = "map")
        => /\ ret.string_type = args.decoder.string_type
           /\ \A i \in 1..ToInt32(mpack_read_tag(args.data, 0).v) :
                  LET kp == KeyPos(args.data, i)
                      kt == mpack_read_tag(args.data, kp)
                      items == ret.value.items
                  IN  (/\ kt.type = "array"
                       /\ ToInt32(kt.v) >= 1
                       /\ mpack_read_tag(args.data, kt.pos).type = "str"
                       /\ mpack_read_tag(args.data, ValuePos(args.data, i)).type # "nil")
                          => \E j \in 1..Len(items) :
                                 /\ items[j][1].t \in {"array", "tuple"}
                                 /\ Len(items[j][1].items) >= 1
                                 /\ items[j][1].items[1].t = args.decoder.string_type

\* The value a configuration table gives for a wire category named by one
\* of `names`, or nil when it has no such entry.
RECURSIVE EntryFor(_, _, _)
EntryFor(items, names, i) ==
    IF i > Len(items) THEN janet_wrap_nil
    ELSE IF Names(items[i][1], names) THEN items[i][2]
    ELSE EntryFor(items, names, i + 1)

\* The host types a configuration table may name for each wire category.
StrChoices == {N_string, N_buffer, N_symbol, N_keyword}
BinChoices == {N_string, N_buffer}
ArrayChoices == {N_tuple, N_array}
MapChoices == {N_struct, N_table}

\* Whether every entry of the table names a wire category and a host type
\* that category may take.
ValidConfigTable(items) ==
    \A i \in 1..Len(items) :
        \/ janet_checktype(items[i][1], "nil")
        \/ Names(items[i][1], {N_str, N_string}) /\ Names(items[i][2], StrChoices)
        \/ Names(items[i][1], {N_bin, N_bytes}) /\ Names(items[i][2], BinChoices)
        \/ Names(items[i][1], {N_array, N_list}) /\ Names(items[i][2], ArrayChoices)
        \/ Names(items[i][1], {N_map, N_dict}) /\ Names(items[i][2], MapChoices)

\* The host type a name stands for.
TypeNamed(nm) ==
    CASE nm = N_string -> "string"
      [] nm = N_buffer -> "buffer"
      [] nm = N_symbol -> "symbol"
      [] nm = N_keyword -> "keyword"

\* The mutability a table entry asks for, or the default without an entry.
Mutability(entry, immutable_name) ==
    IF entry = janet_wrap_nil THEN JANET_TYPE_MUTABLE
    ELSE IF entry.s = immutable_name THEN JANET_TYPE_IMMUTABLE
    ELSE JANET_TYPE_MUTABLE

\* C27: the decode configuration is resolved from every entry of the table,
\* in whatever order its slots come: each of the str, bin, array and map
\* settings is the table's entry when it has one and the default otherwise
\* (an entry for str does not stop the entries after it).
C27_EveryEntryApplied ==
    (op = "decode_config" /\ ValidConfigTable(args.config.items))
        => LET items == args.config.items
               str == EntryFor(items, {N_str, N_string}, 1)
           IN  /\ ret.status = "ok"
               /\ ret.decoder.string_type =
                      (IF str = janet_wrap_nil THEN "string" ELSE TypeNamed(str.s))
               /\ ret.decoder.bin_type = Mutability(EntryFor(items, {N_bin, N_bytes}, 1), N_string)
               /\ ret.decoder.array_type =
                      Mutability(EntryFor(items, {N_array, N_list}, 1), N_tuple)
               /\ ret.decoder.map_type = Mutability(EntryFor(items, {N_map, N_dict}, 1), N_struct)

\* C28: a wire str or bin of length n that is decoded into a buffer yields a
\* buffer of exactly its n payload bytes, zero bytes included, and nothing
\* of what follows the payload in the input or lies past the input's end.
C28_BufferPayload ==
    (/\ op = "decode_msgpack"
     /\ ret.status = "ok"
     /\ mpack_read_tag(args.data, 0).type \in {"str", "bin"}
     /\ ret.value.t = "buffer")
        => ret.value.s = StrBytes(args.data, 0)

\* C29: msgpack/encode given nil as its configuration and a sink as its
\* third argument does what the call without a configuration does, into
\* that sink: it returns or fails alike, and the bytes it appends to the
\* sink are the bytes the call without a configuration writes.
C29_NilConfig ==
    (/\ op = "encode"
     /\ args.argc = 3
     /\ args.argv[2] = janet_wrap_nil
     /\ args.argv[3] = TheBuffer)
        => LET absent == janet_msgpack_encode(1, <<args.argv[1]>>, <<>>, args.little_endian)
           IN  /\ ret.sink = "arg"
               /\ ret.panic = absent.panic
               /\ IsPrefix(ret.before, ret.out)
               /\ Appended = absent.buffer

(***************************************************************************)
(* The two walks step by step: one step per entry of encode_msgpack or of  *)
(* decode_msgpack and one per turn of a container's loop.  The host value  *)
(* is a heap of objects that refer to each other by number, so that an     *)
(* array or table can hold itself.  `ret` is the walk: its status, the     *)
(* frames of the calls in progress, the call about to be entered, and the  *)
(* reader's cursor.                                                        *)
(***************************************************************************)
Node(t, kids) == [t |-> t, kids |-> kids]

\* Heaps of objects; a table's kids are its keys and values in slot order.
WalkHeaps ==
    { << Node("array", <<1>>) >>,                                  \* a = @[a]
      << Node("array", <<2, 1, 1>>), Node("s64", <<>>) >>,         \* a = @[1 a a]
      << Node("table", <<2, 1>>), Node("s64", <<>>) >>,            \* t = @{1 t}
      << Node("table", <<1, 2>>), Node("s64", <<>>) >>,            \* t = @{t 1}
      << Node("array", <<2>>), Node("table", <<3, 1>>), Node("s64", <<>>) >>,
      << Node("array", <<2, 3>>), Node("s64", <<>>), Node("array", <<2>>) >>,
      << Node("tuple", <<2, 2>>), Node("s64", <<>>) >>,
      << Node("array", <<>>) >>,
      << Node("s64", <<>>) >>,
      << Node("number", <<>>) >>,
      << Node("function", <<>>) >> }

\* Inputs nested to the guard's depth and beyond it: array headers of one
\* element each.
DeepInputs == {Filled(JANET_RECURSION_GUARD + d, 145) : d \in {0, Near}}

WalkCalls ==
    {[fn |-> "encode", heap |-> h, little_endian |-> e] : h \in WalkHeaps, e \in BOOLEAN}
    \cup {[fn |-> "decode", data |-> d] : d \in DecodeInputs \cup DeepInputs}

Walk(status, panic, stack, call, pos) ==
    [status |-> status, panic |-> panic, stack |-> stack, call |-> call, pos |-> pos]

WalkInit ==
    /\ op = "walk"
    /\ args \in WalkCalls
    /\ buffer = IF args.fn = "encode" THEN <<>> ELSE args.data
    /\ origin = Origin("none", 0, <<>>, "none", FALSE)
    /\ ret = Walk("running", "", <<>>, IF args.fn = "encode" THEN 1 ELSE 0, 0)

\* A handler that returns to the reader instead of leaving the call.
janet_msgpack_error_handler_Returns(w, error) == w

\* janet_msgpack_error_handler: a reader error ends the call by a panic.
janet_msgpack_error_handler(w, error) ==
    [w EXCEPT !.status = "failed", !.panic = "Error decoding msgpack: " \o error]

\* The value just encoded or decoded is handed back to the loop that asked
\* for it, or, at the top, to the caller.
WalkReturned(w) == IF w.stack = <<>> THEN [w EXCEPT !.status = "done"] ELSE w

\* encode_msgpack is entered for object ret.call at depth Len(ret.stack):
\* the guard, then the value's case.  A 64-bit integer is written and the
\* call returns; a container's header is written and its loop begins; any
\* other value is written, if it has a form, and the switch is left for the
\* unknown_type panic.
EncodeEnter ==
    /\ args.fn = "encode"
    /\ ret.status = "running"
    /\ ret.call # 0
    /\ LET node == args.heap[ret.call]
           depth == Len(ret.stack)
       IN  IF recursed_too_deeply(depth)
           THEN /\ ret' = [ret EXCEPT !.status = "failed", !.panic = "recursed too deeply"]
                /\ UNCHANGED buffer
           ELSE CASE node.t = "s64" ->
                       /\ buffer' = encode_msgpack_int(buffer, FromInt32(1), FALSE)
                       /\ ret' = WalkReturned([ret EXCEPT !.call = 0])
                  [] node.t \in {"array", "tuple"} ->
                       /\ buffer' = encode_msgpack_collection_length(
                                        buffer, Len(node.kids), 144, 220)
                       /\ ret' = [ret EXCEPT !.call = 0,
                                             !.stack = Append(@, [node |-> ret.call, i |-> 0])]
                  [] node.t \in {"table", "struct"} ->
                       /\ buffer' = encode_msgpack_collection_length(
                                        buffer, Len(node.kids) \div 2, 128, 222)
                       /\ ret' = [ret EXCEPT !.call = 0,
                                             !.stack = Append(@, [node |-> ret.call, i |-> 0])]
                  [] node.t = "number" ->
                       /\ buffer' = push_double(janet_buffer_push_u8(buffer, 203),
                                                <<63, 248, 0, 0, 0, 0, 0, 0>>,
                                                args.little_endian)
                       /\ ret' = [ret EXCEPT !.status = "failed",
                                             !.panic = "Unknown type: number"]
                  [] OTHER ->
                       /\ UNCHANGED buffer
                       /\ ret' = [ret EXCEPT !.status = "failed",
                                             !.panic = "Unknown type: " \o node.t]
    /\ UNCHANGED <<op, args, origin>>

\* One turn of the loop of the innermost container: the next child is
\* handed to encode_msgpack one level deeper, or, after the last one, the
\* switch is left by break for the unknown_type panic.
EncodeLoop ==
    /\ args.fn = "encode"
    /\ ret.status = "running"
    /\ ret.call = 0
    /\ ret.stack # <<>>
    /\ LET top == ret.stack[Len(ret.stack)]
           node == args.heap[top.node]
       IN  IF top.i < Len(node.kids)
           THEN ret' = [ret EXCEPT !.call = node.kids[top.i + 1],
                                   !.stack[Len(ret.stack)].i = top.i + 1]
           ELSE ret' = [ret EXCEPT !.status = "failed",
                                   !.panic = "Unknown type: " \o node.t]
    /\ UNCHANGED <<op, args, buffer, origin>>

\* The value read is handed back: one fewer is left in the innermost loop.
DecodeReturned(w) ==
    IF w.stack = <<>> THEN [w EXCEPT !.status = "done"]
    ELSE [w EXCEPT !.stack[Len(w.stack)] = @ - 1]

\* decode_msgpack is entered at depth Len(ret.stack) with the default
\* decoder: the guard, one tag read, then the tag's case.  A str or bin
\* takes its payload; an array or map begins its loop.
DecodeEnter ==
    /\ args.fn = "decode"
    /\ ret.status = "running"
    /\ ret.stack # <<>> => ret.stack[Len(ret.stack)] > 0
    /\ LET depth == Len(ret.stack)
           tag == mpack_read_tag(args.data, ret.pos)
       IN  IF decode_recursed_too_deeply(depth)
           THEN ret' = [ret EXCEPT !.status = "failed",
                                   !.panic = "mspgack decoding recursed too deeply"]
           ELSE IF tag.error # ""
           THEN ret' = janet_msgpack_error_handler(ret, tag.error)
           ELSE IF tag.type \in {"str", "bin", "array", "map"} /\ ~check_length_cast(tag.v)
           THEN ret' = [ret EXCEPT !.status = "failed", !.panic = "Length overflowed int32"]
           ELSE CASE tag.type \in {"str", "bin"} ->
                       LET n == ToInt32(tag.v)
                           bytes == SubSeq(args.data, tag.pos + 1, tag.pos + n)
                       IN  IF n > Len(args.data) - tag.pos
                           THEN ret' = janet_msgpack_error_handler(ret, "invalid")
                           ELSE IF tag.type = "str" /\ ~utf8_check(bytes, 1)
                           THEN ret' = janet_msgpack_error_handler(ret, "type")
                           ELSE ret' = DecodeReturned([ret EXCEPT !.pos = tag.pos + n])
                  [] tag.type = "array" ->
                       ret' = [ret EXCEPT !.pos = tag.pos,
                                          !.stack = Append(@, ToInt32(tag.v))]
                  [] tag.type = "map" ->
                       ret' = [ret EXCEPT !.pos = tag.pos,
                                          !.stack = Append(@, 2 * ToInt32(tag.v))]
                  [] OTHER -> ret' = DecodeReturned([ret EXCEPT !.pos = tag.pos])
    /\ UNCHANGED <<op, args, buffer, origin>>

\* The loop of the innermost array or map has read its last element: the
\* container is returned to the loop around it, or to the caller.
DecodeLeave ==
    /\ args.fn = "decode"
    /\ ret.status = "running"
    /\ ret.stack # <<>>
    /\ ret.stack[Len(ret.stack)] = 0
    /\ ret' = DecodeReturned([ret EXCEPT !.stack = SubSeq(@, 1, Len(@) - 1)])
    /\ UNCHANGED <<op, args, buffer, origin>>

WalkNext == EncodeEnter \/ EncodeLoop \/ DecodeEnter \/ DecodeLeave

\* The call runs on its own thread of control and nothing makes it wait:
\* while a step is possible, one is taken.
SpecWalk == WalkInit /\ [][WalkNext]_vars /\ WF_vars(WalkNext)

\* C30: every call ends.  The encode of any host value, an array or table
\* that holds itself included, and the decode of any finite input reach,
\* after finitely many steps, a return to the caller or a failure.
C30_Terminates == <>(ret.status \in {"done", "failed"})

\* The walk of an array that holds itself has been ended by the guard, with
\* one frame for each depth up to the guard.
C30_Witness ==
    /\ op = "walk"
    /\ args.fn = "encode"
    /\ args.heap = << Node("array", <<1>>) >>
    /\ ret.status = "failed"
    /\ ret.panic = "recursed too deeply"
    /\ Len(ret.stack) = JANET_RECURSION_GUARD + 1
====
